---- MODULE Spec2Model ----
(***************************************************************************)
(* Entity lifecycle, object pool, entity manager and wave manager of the   *)
(* tower-defence simulation.  Every operation of the TypeScript source is  *)
(* a pure operator over a "world" record (the heap of entity objects, the  *)
(* pools, the manager's indices, the wave manager's fields); an action     *)
(* applies one public operation to the current world and commits the       *)
(* result.  Callbacks are closures in the source; here a callback is a     *)
(* record naming the function it calls.  Optional numeric fields of        *)
(* EntityData are 0 when absent: the source reads them with `x || d`,      *)
(* which treats 0 and undefined alike.                                     *)
(***************************************************************************)
EXTENDS Integers, Sequences, FiniteSets, TLC

\* ---------------------------------------------------------------- bounds
MaxEnt == 3          \* entity objects the factories may construct in one run
MaxDataHealth == 2   \* largest health an EntityData carries
MaxDamage == 2       \* largest damage of one takeDamage call
MaxAge == 1          \* age is counted in update calls and saturates here
SpawnDistance == 1   \* movement steps from the spawn edge to the enemy's attack range
MaxInitialSize == 2  \* largest pool initialSize explored
MaxMaxSize == 2      \* largest pool maxSize explored
MaxCallbacks == 1    \* callbacks of one sort a caller registers on one entity per occupancy
EnemyPoolInitialSize == 1  \* the enemy pool's initialSize (10 in the game), scaled down
EnemyPoolMaxSize == 2      \* the enemy pool's maxSize (50 in the game), scaled down
MaxWave == 2         \* the wave manager starts no wave beyond this one
MaxConfigWave == 30  \* the largest wave whose configuration is generated
MaxFineDt == 9       \* the longer of the two short frames used to time the spawns
MaxTargets == 3      \* the longest enemy list handed to findTarget
MaxNow == 4000       \* the clock stops the weapon system's updates at 4 s
MaxChainEnemies == 6 \* the longest enemy list a chain is tried on
StartClock == 5000   \* what the clock shows when the projectile runs begin, in ms
MaxFlight == 1800    \* how long the projectile runs are followed, in ms
MaxFrameTime == 16000 \* longest game a frame is modelled in, in ms
MaxWeapons == 2        \* the most weapons active on the tower in a frame
StepLength == 13      \* what an enemy moves in one step, in units of 5 px
AttackRange == 7      \* Enemy.attackRange, 35 px
MaxDt == 20          \* largest deltaTime of one update, in units of 0.05 s
MaxScore == 10       \* the score is followed up to this many points
MaxGameTime == 20    \* the game time is followed up to 1 s, in units of 0.05 s

\* ------------------------------------------------------- program constants
DefaultHealth == 1           \* Entity.reset: data.health || 1
DefaultRadius == 10          \* Entity.reset: data.radius || 10
EnemyCtorRadius == 15        \* Enemy constructor: data.radius || 15
TowerHealth == 3             \* Tower constructor
TowerRadius == 30            \* Tower constructor
TowerPoolSize == 1           \* the tower pool's initialSize and maxSize
BaseEnemyCount == 4          \* WaveManager.baseEnemyCount
EnemyCountIncrease == 2      \* WaveManager.enemyCountIncrease
BaseSpawnDelay == 30         \* WaveManager.baseSpawnDelay, 1.5 s in units of 0.05 s
SpawnDelayStep == 1          \* updateWaveSpawning: 0.05 s less per wave
ConfigSpawnDelayStep == 2
MinSpawnDelay == 10          \* updateWaveSpawning: Math.max(0.5, ...), 0.5 s
NextWaveDelay == 100         \* WaveManager.nextWaveDelay, 5.0 s
TurretRange == 30            \* weaponCatalog basic_turret and rapid_fire: range 150
MaxChains == 5               \* handleChainLightning: maxChains
DefaultChainRange == 16      \* handleChainLightning: weapon.areaOfEffect || 80
BasicReward == 10            \* Enemy.onReset: enemyData.reward || 10, the least reward

VARIABLES ents, pools, nextId, allEntities, entitiesByType, activationOrder, wm, game, tws, obs, last

vars == <<ents, pools, nextId, allEntities, entitiesByType, activationOrder, wm, game, tws, obs, last>>

Ids == 1..MaxEnt
EntityTypes == {"tower", "enemy", "projectile", "pickup", "effect"}

Max(a, b) == IF a >= b THEN a ELSE b
Min(a, b) == IF a <= b THEN a ELSE b
OrDefault(x, d) == IF x # 0 THEN x ELSE d

\* F applied to the value of x
Then(x, F(_)) == CHOOSE r \in {F(v) : v \in {x}} : TRUE

SeqToSet(s) == {s[i] : i \in 1..Len(s)}
InSeq(x, s) == \E i \in 1..Len(s) : s[i] = x
RemoveFromSeq(s, x) == SelectSeq(s, LAMBDA y : y # x)
\* Set.add on an insertion-ordered Set: an element already present keeps its place
SetAdd(s, x) == IF InSeq(x, s) THEN s ELSE Append(s, x)
Front(s) == SubSeq(s, 1, Len(s) - 1)
Last(s) == s[Len(s)]

\* a wave event the wave manager's callbacks were called with; `by` names the
\* public operation that emitted it
WaveEvent(kind, wave, by) == [kind |-> kind, wave |-> wave, by |-> by]
NoEvent == WaveEvent("none", 0, "")

\* ---------------------------------------------------------------- entities
\* An object no factory has constructed yet
NoEntity ==
  [made |-> FALSE, cls |-> "none", type |-> "enemy", active |-> FALSE, pooled |-> FALSE,
   health |-> 0, maxHealth |-> 0, radius |-> 0, age |-> 0, vel |-> 0, pos |-> 0,
   enemyType |-> "basic", distanceToTarget |-> 0, lastSpawnTime |-> 0, towerTarget |-> 0,
   inWave |-> FALSE, onDestroyCallbacks |-> <<>>, onDamageCallbacks |-> <<>>, fired |-> <<>>]

\* new Enemy(data): Entity constructor, then the Enemy fields, then spawnAtEdge
EnemyCtor(data) ==
  LET h == OrDefault(data.health, DefaultHealth) IN
  [NoEntity EXCEPT !.made = TRUE, !.cls = "Enemy", !.type = data.type, !.active = TRUE,
                   !.health = h, !.maxHealth = OrDefault(data.maxHealth, h),
                   !.radius = OrDefault(data.radius, EnemyCtorRadius),
                   !.enemyType = IF data.enemyType # "" THEN data.enemyType ELSE "basic",
                   !.pos = SpawnDistance]

\* a Tower constructor that passes the type of its data through, as Enemy's does
TowerCtorDataType(data) ==
  [NoEntity EXCEPT !.made = TRUE, !.cls = "Tower", !.type = data.type, !.active = TRUE,
                   !.health = TowerHealth, !.maxHealth = TowerHealth,
                   !.radius = TowerRadius, !.pos = 0]

\* new Tower(data): type, position, health and radius are fixed by the constructor
TowerCtor(data) ==
  [NoEntity EXCEPT !.made = TRUE, !.cls = "Tower", !.type = "tower", !.active = TRUE,
                   !.health = TowerHealth, !.maxHealth = TowerHealth,
                   !.radius = TowerRadius, !.pos = 0]

\* the factory registered for a kind (PlayingState constructor)
Factory(kind, data) == IF kind = "tower" THEN TowerCtor(data) ELSE EnemyCtor(data)

\* EntityPool.createNewEntity's dummy data
DummyData == [type |-> "enemy", health |-> 1, maxHealth |-> 0, radius |-> 0, enemyType |-> ""]

\* the EntityData PlayingState.onEnter creates the tower with
TowerData == [type |-> "tower", health |-> 0, maxHealth |-> 0, radius |-> 0, enemyType |-> ""]

\* ------------------------------------------------------------------- pool
\* EntityPool.release
Release(w, k, e) ==
  LET p == w.pools[k] IN
  IF ~w.ents[e].pooled \/ ~InSeq(e, p.active) THEN w
  ELSE [w EXCEPT !.ents[e].active = FALSE,
                 !.activationOrder = RemoveFromSeq(@, e),
                 !.pools[k].active = RemoveFromSeq(p.active, e),
                 !.pools[k].pool = IF Len(p.pool) < p.config.maxSize
                                    THEN Append(p.pool, e) ELSE p.pool]

\* EntityManager.removeEntity
RemoveEntity(w, e) ==
  LET t == w.ents[e].type IN
  [w EXCEPT !.allEntities = @ \ {e},
            !.entitiesByType[t] = @ \ {e}]

\* WaveManager.onEnemyDestroyed
OnEnemyDestroyed(w, e) ==
  IF e \in w.wm.activeEnemies
  THEN [w EXCEPT !.wm.activeEnemies = @ \ {e},
                 !.wm.enemiesKilledInWave = @ + 1]
  ELSE w

\* WaveManager.stopWaves
StopWaves(w) ==
  [w EXCEPT !.wm.waveInProgress = FALSE,
            !.wm.spawningEnemies = FALSE,
            !.wm.spawnQueue = <<>>,
            !.wm.activeEnemies = {},
            !.wm.timeUntilNextWave = 0]

\* PlayingState.triggerGameOver: stopWaves, then changeState(GAME_OVER), which
\* hands the playing state's data (merged with the game-over data) to the
\* game-over state
TriggerGameOver(w) ==
  [StopWaves(w) EXCEPT !.game.phase = "gameover",
                       !.game.clickables = {},
                       !.game.pausedFromPlaying["gameover"] = @ \/ w.game.pausedFromPlaying["playing"]]

\* one step of the operation under way, as w.trace lists them in the order
\* they are taken: ev names the step, e the object, fn the callback called
Event(ev, e, fn) == [ev |-> ev, e |-> e, fn |-> fn]

\* what a callback sees of the entity it is called with
Observation(w, e, where) ==
  [where |-> where, health |-> w.ents[e].health, active |-> w.ents[e].active]

\* one destroy callback
ApplyDestroyCallback(w, e, cb) ==
  LET w1 == [w EXCEPT !.ents[e].fired = Append(@, cb.fn),
                      !.trace = Append(@, Event("callback", e, cb.fn))] IN
  CASE cb.fn = "release" -> Release(w1, cb.arg, e)
    [] cb.fn = "removeEntity" -> RemoveEntity(w1, e)
    [] cb.fn = "onEnemyDestroyed" -> OnEnemyDestroyed(w1, e)
    [] cb.fn = "gameOver" -> TriggerGameOver(w1)
    [] cb.fn = "observer" -> [w1 EXCEPT !.obs = @ \cup {Observation(w1, e, "destroy")}]
    [] OTHER -> w1

RECURSIVE RunDestroyCallbacks(_, _, _)
RunDestroyCallbacks(w, e, cbs) ==
  IF cbs = <<>> THEN w
  ELSE Then(ApplyDestroyCallback(w, e, Head(cbs)),
            LAMBDA v : RunDestroyCallbacks(v, e, Tail(cbs)))

\* a destroy without the `if (!this.active) return` guard
DestroyUnguarded(w, e) ==
  LET w1 == [w EXCEPT !.ents[e].active = FALSE]
      w2 == RunDestroyCallbacks(w1, e, w.ents[e].onDestroyCallbacks)
  IN [w2 EXCEPT !.ents[e].fired = Append(@, "onDestroy")]

\* a destroy that runs the onDestroy hook ahead of the destroy callbacks
DestroyHookFirst(w, e) ==
  IF ~w.ents[e].active THEN w
  ELSE LET w1 == [w EXCEPT !.ents[e].active = FALSE,
                           !.ents[e].fired = Append(@, "onDestroy")]
       IN RunDestroyCallbacks(w1, e, w.ents[e].onDestroyCallbacks)

\* Entity.destroy
Destroy(w, e) ==
  IF ~w.ents[e].active THEN w
  ELSE LET w1 == [w EXCEPT !.ents[e].active = FALSE]
           w2 == RunDestroyCallbacks(w1, e, w.ents[e].onDestroyCallbacks)
       IN [w2 EXCEPT !.ents[e].fired = Append(@, "onDestroy")]

\* Enemy.onReset / Tower.onReset
OnReset(ent, data) ==
  IF ent.cls = "Enemy"
  THEN [ent EXCEPT !.enemyType = IF data.enemyType # "" THEN data.enemyType ELSE "basic",
                   !.towerTarget = 0,
                   !.pos = SpawnDistance]
  ELSE ent

\* Entity.reset
Reset(w, e, data) ==
  LET h == OrDefault(data.health, DefaultHealth)
      base == [w.ents[e] EXCEPT !.pos = 0,
                 !.health = h, !.maxHealth = OrDefault(data.maxHealth, h),
                 !.radius = OrDefault(data.radius, DefaultRadius),
                 !.active = TRUE, !.vel = 0, !.age = 0,
                 !.onDestroyCallbacks = <<>>, !.onDamageCallbacks = <<>>,
                 !.fired = <<>>, !.inWave = FALSE]
  IN [w EXCEPT !.ents[e] = OnReset(base, data)]

\* Entity.onDestroyed / Entity.onDamaged
OnDestroyed(w, e, fn, arg) ==
  [w EXCEPT !.ents[e].onDestroyCallbacks = Append(@, [fn |-> fn, arg |-> arg])]
OnDamaged(w, e, fn) ==
  [w EXCEPT !.ents[e].onDamageCallbacks = Append(@, [fn |-> fn, arg |-> ""])]

\* EntityPool.createNewEntity: the next unconstructed object, built from the dummy data
CreateNewEntity(w, k) ==
  [w EXCEPT !.ents[w.nextId] = Factory(k, DummyData),
            !.nextId = @ + 1,
            !.ret = w.nextId]

\* EntityPool.forceReuse
ForceReuse(w, k, data) ==
  LET oldestEntity == Head(w.pools[k].active)
      w1 == Destroy([w EXCEPT !.trace = Append(@, Event("evict", oldestEntity, ""))],
                    oldestEntity)
  IN [Reset(w1, oldestEntity, data)
        EXCEPT !.ret = oldestEntity,
               !.trace = Append(@, Event("evicted", oldestEntity, ""))]

\* EntityPool.acquire; the entity handed out is left in .ret
Acquire(w, k, data) ==
  LET p == w.pools[k]
      Created(c) == Reset(c, c.ret, data)
      Activated(w1) ==
        OnDestroyed([w1 EXCEPT !.ents[w1.ret].pooled = TRUE,
                               !.pools[k].active = SetAdd(@, w1.ret),
                               !.activationOrder = Append(RemoveFromSeq(@, w1.ret), w1.ret)],
                    w1.ret, "release", k)
  IN Then(IF Len(p.pool) > 0
               THEN [Reset([w EXCEPT !.pools[k].pool = Front(p.pool)], Last(p.pool), data)
                       EXCEPT !.ret = Last(p.pool)]
               ELSE IF Len(p.active) < p.config.maxSize
                    THEN Created(CreateNewEntity(w, k))
                    ELSE ForceReuse(w, k, data), Activated)

\* EntityManager.createEntity (every kind the game creates has a pool)
CreateEntity(w, entityType, data) ==
  LET Tracked(w1) ==
        OnDestroyed([w1 EXCEPT !.allEntities = @ \cup {w1.ret},
                               !.entitiesByType[data.type] = @ \cup {w1.ret}],
                    w1.ret, "removeEntity", "")
  IN Then(Acquire(w, entityType, data), Tracked)

\* whether acquire can run within the bound on constructed objects
CanAcquire(w, k) ==
  \/ Len(w.pools[k].pool) > 0
  \/ Len(w.pools[k].active) >= w.pools[k].config.maxSize
  \/ w.nextId <= MaxEnt

\* --------------------------------------------------------- damage, update
RECURSIVE TakeDamage(_, _, _)
RECURSIVE RunDamageCallbacks(_, _, _, _)

\* Entity.takeDamage (the Enemy and Tower overrides add visual feedback only)
TakeDamage(w, e, damage) ==
  IF ~w.ents[e].active \/ w.ents[e].health <= 0 THEN w
  ELSE LET w1 == [w EXCEPT !.ents[e].health = Max(0, @ - damage),
                           !.trace = Append(@, Event("takeDamage", e, ""))]
           Finish(w2) == IF w2.ents[e].health <= 0 THEN Destroy(w2, e) ELSE w2
       IN Finish(RunDamageCallbacks(w1, e, w1.ents[e].onDamageCallbacks, damage))

\* the damage callbacks: an observer, or one that damages the entity again
RunDamageCallbacks(w, e, cbs, damage) ==
  IF cbs = <<>> THEN w
  ELSE LET cb == Head(cbs)
           w1 == CASE cb.fn = "observer" -> [w EXCEPT !.obs = @ \cup {Observation(w, e, "damage")}]
                   [] cb.fn = "redamage" -> TakeDamage(w, e, 1)
                   [] OTHER -> w
       IN RunDamageCallbacks(w1, e, Tail(cbs), damage)

\* Enemy.attackTowerAndDestroy
AttackTowerAndDestroy(w, e) ==
  IF ~w.ents[e].active \/ w.ents[e].health <= 0 THEN w
  ELSE LET t == w.ents[e].towerTarget
           w1 == IF t # 0 /\ w.ents[t].active THEN TakeDamage(w, t, 1) ELSE w
       IN Destroy(w1, e)

\* Enemy.onUpdate / Tower.onUpdate.  pos and distanceToTarget count the movement
\* steps left until the tower is within attackRange: 0 is "in attack range"
OnUpdate(w, e) ==
  LET ent == w.ents[e] IN
  IF ent.cls # "Enemy" \/ ~ent.active \/ ent.health <= 0 THEN w
  ELSE LET d == ent.pos
           w1 == [w EXCEPT !.ents[e].lastSpawnTime = IF ent.enemyType = "boss" THEN ent.age ELSE @,
                           !.ents[e].distanceToTarget = d,
                           !.ents[e].vel = IF d > 0 THEN 1 ELSE 0]
       IN IF d <= 0 THEN AttackTowerAndDestroy(w1, e) ELSE w1

\* Entity.update
Update(w, e) ==
  IF ~w.ents[e].active THEN w
  ELSE LET w1 == [w EXCEPT !.ents[e].age = Min(@ + 1, MaxAge),
                           !.ents[e].pos = Max(0, @ - w.ents[e].vel),
                           !.trace = Append(@, Event("update", e, ""))]
           Finish(w2) == IF w2.ents[e].health <= 0 /\ w2.ents[e].active
                         THEN Destroy(w2, e) ELSE w2
       IN Finish(OnUpdate(w1, e))

\* a loop that passes over the object that follows one it has just seen
\* leave the active set (an index into a list that shrinks under it)
RECURSIVE UpdateEachSkipping(_, _)
UpdateEachSkipping(w, es) ==
  IF es = <<>> THEN w
  ELSE LET Rest(v) == IF ~v.ents[Head(es)].active /\ Len(es) > 1
                      THEN UpdateEachSkipping(v, Tail(Tail(es)))
                      ELSE UpdateEachSkipping(v, Tail(es))
       IN Then(IF w.ents[Head(es)].active THEN Update(w, Head(es)) ELSE w, Rest)

\* EntityPool.updateAll: the loop over the active set; an object a previous
\* iteration released is inactive and is passed over
RECURSIVE UpdateEach(_, _)
UpdateEach(w, es) ==
  IF es = <<>> THEN w
  ELSE UpdateEach(IF w.ents[Head(es)].active THEN Update(w, Head(es)) ELSE w, Tail(es))

UpdateAll(w, k) == UpdateEach(w, w.pools[k].active)

\* EntityManager.update: the pools in the order they were registered
ManagerUpdate(w) == UpdateAll(UpdateAll(w, "tower"), "enemy")

\* ----------------------------------------------------------- wave manager
\* a wave callback is called: the event becomes the latest one
Emit(w, ev) ==
  [w EXCEPT !.wm.prevEvent = w.wm.lastEvent, !.wm.lastEvent = ev, !.event = ev]

CeilDiv(a, b) == (a + b - 1) \div b

\* an enemyCount that counts the waves from 0
EnemyCountFromZero(waveNumber) == BaseEnemyCount + waveNumber * EnemyCountIncrease

\* generateWaveConfig: enemyCount
EnemyCount(waveNumber) == BaseEnemyCount + (waveNumber - 1) * EnemyCountIncrease

\* updateWaveSpawning: spawnDelay
SpawnDelay(waveNumber) ==
  Max(MinSpawnDelay, BaseSpawnDelay - (waveNumber - 1) * SpawnDelayStep)

\* generateWaveConfig: spawnDelay
ConfigSpawnDelay(waveNumber) ==
  Max(MinSpawnDelay, BaseSpawnDelay - (waveNumber - 1) * ConfigSpawnDelayStep)

\* Math.ceil(base * healthMultiplier), healthMultiplier = 1 + (waveNumber - 1) * 0.2.
\* The product is computed in IEEE doubles: for the pairs of FloatExcess it
\* comes out just above the exact integer value and Math.ceil gives one more
\* (10 * (1 + 19 * 0.2) is 48.00000000000001).  The counts, Math.ceil(total * 0.15)
\* and the like, agree with exact arithmetic for every wave up to 40.
FloatExcess == {<<10, 8>>, <<10, 20>>, <<10, 24>>, <<10, 25>>, <<10, 39>>}

\* a health that ignores the base health of the enemy type
ScaledHealthBaseless(base, waveNumber) == CeilDiv(10 + (waveNumber - 1) * 2, 10)

ScaledHealth(base, waveNumber) ==
  CeilDiv(base * (10 + (waveNumber - 1) * 2), 10)
    + (IF <<base, waveNumber>> \in FloatExcess THEN 1 ELSE 0)

Group(type, count, base, waveNumber) ==
  [type |-> type, count |-> count, health |-> ScaledHealth(base, waveNumber)]

\* calculateEnemyDistribution: type, count and health of each group
CalculateEnemyDistribution(waveNumber, totalEnemies) ==
  IF waveNumber <= 2
  THEN <<Group("basic", totalEnemies, 1, waveNumber)>>
  ELSE IF waveNumber <= 5
  THEN LET fastCount == CeilDiv(totalEnemies * 3, 10)
       IN <<Group("basic", totalEnemies - fastCount, 1, waveNumber),
            Group("fast", fastCount, 1, waveNumber)>>
  ELSE IF waveNumber <= 10
  THEN LET tankCount == CeilDiv(totalEnemies * 15, 100)
           fastCount == CeilDiv(totalEnemies * 25, 100)
           swarmCount == IF waveNumber % 4 = 0 THEN CeilDiv(totalEnemies * 2, 10) ELSE 0
           basicCount == totalEnemies - tankCount - fastCount - swarmCount
       IN <<Group("basic", basicCount, 1, waveNumber),
            Group("fast", fastCount, 1, waveNumber),
            Group("tank", tankCount, 3, waveNumber)>>
          \o (IF swarmCount > 0 THEN <<Group("swarm", swarmCount, 1, waveNumber)>> ELSE <<>>)
          \o (IF waveNumber % 10 = 0 THEN <<Group("boss", 1, 10, waveNumber)>> ELSE <<>>)
  ELSE LET tankCount == CeilDiv(totalEnemies * 15, 100)
           fastCount == CeilDiv(totalEnemies * 2, 10)
           swarmCount == CeilDiv(totalEnemies * 15, 100)
           stealthCount == IF waveNumber >= 15 THEN CeilDiv(totalEnemies, 10) ELSE 0
           basicCount == totalEnemies - tankCount - fastCount - swarmCount - stealthCount
       IN <<Group("basic", basicCount, 1, waveNumber),
            Group("fast", fastCount, 1, waveNumber),
            Group("tank", tankCount, 3, waveNumber),
            Group("swarm", swarmCount, 1, waveNumber)>>
          \o (IF stealthCount > 0 THEN <<Group("stealth", stealthCount, 2, waveNumber)>> ELSE <<>>)
          \o (IF waveNumber % 10 = 0 THEN <<Group("boss", 1, 10, waveNumber)>> ELSE <<>>)
          \o (IF waveNumber >= 20 /\ waveNumber % 5 = 0
              THEN <<Group("boss", 1, 8, waveNumber)>> ELSE <<>>)

\* buildSpawnQueue: the groups expanded in order.  The shuffle that follows in
\* the source is a uniform choice of the order; it is made at the time an
\* entry is taken (SpawnNextEnemy's pick)
RECURSIVE BuildSpawnQueue(_)
BuildSpawnQueue(enemyTypes) ==
  IF enemyTypes = <<>> THEN <<>>
  ELSE LET g == Head(enemyTypes) IN
       [i \in 1..g.count |-> [type |-> g.type, health |-> g.health]]
         \o BuildSpawnQueue(Tail(enemyTypes))

\* the entries a shuffled queue can have at its head: one index per distinct entry
Picks(q) == {i \in 1..Len(q) : \A j \in 1..(i - 1) : q[j] # q[i]}

\* WaveManager.startNextWave
StartNextWave(w, by) ==
  LET waveNumber == w.wm.currentWave + 1
      enemyCount == EnemyCount(waveNumber)
      w1 == [w EXCEPT !.wm.currentWave = waveNumber,
                      !.wm.enemiesInCurrentWave = enemyCount,
                      !.wm.enemiesKilledInWave = 0,
                      !.wm.enemiesRemainingToSpawn = enemyCount,
                      !.wm.waveInProgress = TRUE,
                      !.wm.spawningEnemies = TRUE,
                      !.wm.timeSinceLastSpawn = 0,
                      !.wm.timeUntilNextWave = 0,
                      !.wm.spawnQueue =
                         BuildSpawnQueue(CalculateEnemyDistribution(waveNumber, enemyCount)),
                      !.ents = [e \in Ids |-> [w.ents[e] EXCEPT !.inWave = FALSE]]]
  IN Emit(w1, WaveEvent("started", waveNumber, by))

\* WaveManager.startWaves
StartWaves(w) == StartNextWave([w EXCEPT !.wm.currentWave = 0], "startWaves")

\* WaveManager.spawnNextEnemy, with PlayingState's onEnemySpawned callback
SpawnNextEnemy(w, pick) ==
  IF w.wm.spawnQueue = <<>> THEN [w EXCEPT !.wm.spawningEnemies = FALSE]
  ELSE LET q == w.wm.spawnQueue
           enemyData == q[pick]
           baseEnemyData == [type |-> "enemy", health |-> enemyData.health, maxHealth |-> 0,
                             radius |-> 0, enemyType |-> enemyData.type]
           w1 == [w EXCEPT !.wm.spawnQueue = SubSeq(q, 1, pick - 1) \o SubSeq(q, pick + 1, Len(q))]
           Spawned(w2) ==
             LET enemy == w2.ret
                 w3 == [w2 EXCEPT !.wm.activeEnemies = @ \cup {enemy},
                                  !.wm.enemiesRemainingToSpawn = @ - 1,
                                  !.ents[enemy].inWave = TRUE,
                                  !.game.clickables = @ \cup {enemy},
                                  !.game.rewards[enemy] = 0,
                                  !.trace = Append(@, Event("spawn", enemy, ""))]
                 w4 == OnDestroyed(w3, enemy, "onEnemyDestroyed", "")
             IN IF w4.game.tower # 0
                THEN [w4 EXCEPT !.ents[enemy].towerTarget = w4.game.tower] ELSE w4
       IN Then(CreateEntity(w1, "enemy", baseEnemyData), Spawned)

\* WaveManager.updateWaveSpawning
UpdateWaveSpawning(w, deltaTime, pick) ==
  IF ~w.wm.spawningEnemies \/ w.wm.spawnQueue = <<>>
  THEN [w EXCEPT !.wm.spawningEnemies = FALSE]
  ELSE LET w1 == [w EXCEPT !.wm.timeSinceLastSpawn = @ + deltaTime] IN
       IF w1.wm.timeSinceLastSpawn >= SpawnDelay(w1.wm.currentWave)
       THEN [SpawnNextEnemy(w1, pick) EXCEPT !.wm.timeSinceLastSpawn = 0]
       ELSE w1

\* a completeWave that leaves waveInProgress set
CompleteWaveStillInProgress(w) ==
  Emit([w EXCEPT !.wm.timeUntilNextWave = NextWaveDelay],
       WaveEvent("completed", w.wm.currentWave, "update"))

\* a completeWave that leaves no delay to count down
CompleteWaveNoDelay(w) ==
  Emit([w EXCEPT !.wm.waveInProgress = FALSE, !.wm.timeUntilNextWave = 0],
       WaveEvent("completed", w.wm.currentWave, "update"))

\* WaveManager.completeWave
CompleteWave(w) ==
  Emit([w EXCEPT !.wm.waveInProgress = FALSE, !.wm.timeUntilNextWave = NextWaveDelay],
       WaveEvent("completed", w.wm.currentWave, "update"))

\* a completion check that looks at the spawn queue only
CheckWaveCompletionSpawnedOnly(w) ==
  IF w.wm.spawnQueue = <<>> /\ ~w.wm.spawningEnemies
  THEN CompleteWave(w) ELSE w

\* WaveManager.checkWaveCompletion
CheckWaveCompletion(w) ==
  IF w.wm.spawnQueue = <<>> /\ ~w.wm.spawningEnemies /\ w.wm.activeEnemies = {}
  THEN CompleteWave(w) ELSE w

\* an update that does not look at isPaused
WaveManagerUpdateIgnoringPause(w, deltaTime, pick) ==
  IF w.wm.waveInProgress
  THEN CheckWaveCompletion(UpdateWaveSpawning(w, deltaTime, pick))
  ELSE IF w.wm.timeUntilNextWave > 0
  THEN LET w1 == [w EXCEPT !.wm.timeUntilNextWave = @ - deltaTime] IN
       IF w1.wm.timeUntilNextWave <= 0 THEN StartNextWave(w1, "update") ELSE w1
  ELSE w

\* WaveManager.update
WaveManagerUpdate(w, deltaTime, pick) ==
  IF w.wm.isPaused THEN w
  ELSE IF w.wm.waveInProgress
  THEN Then(UpdateWaveSpawning(w, deltaTime, pick), CheckWaveCompletion)
  ELSE IF w.wm.timeUntilNextWave > 0
  THEN LET w1 == [w EXCEPT !.wm.timeUntilNextWave = @ - deltaTime] IN
       IF w1.wm.timeUntilNextWave <= 0 THEN StartNextWave(w1, "update") ELSE w1
  ELSE w

\* WaveManager.forceNextWave
ForceNextWave(w) ==
  IF ~w.wm.waveInProgress THEN [w EXCEPT !.wm.timeUntilNextWave = 0] ELSE w

\* ------------------------------------------------------- TowerWeaponSystem
\* Lengths are in units of 5 px and the clock in ms; an enemy's x and y are
\* its offsets from the tower.
TargetingModes == {"nearest", "furthest", "weakest", "strongest", "fastest", "slowest"}

WeaponIds == {"basic_turret", "rapid_fire"}

\* the keys of weaponCatalog
CatalogIds ==
  {"basic_turret", "rapid_fire", "piercing_rounds", "explosive_shells", "artillery_mode",
   "laser_beam", "chain_lightning", "energy_burst", "plasma_cannon", "tesla_coil"}

\* a WeaponConfig; a field the catalog leaves out is 0 or FALSE
Weapon(name, type, damage, range, fireRate, projectileSpeed, areaOfEffect, flags) ==
  [name |-> name, type |-> type, damage |-> damage, range |-> range, fireRate |-> fireRate,
   projectileSpeed |-> projectileSpeed, areaOfEffect |-> areaOfEffect,
   piercing |-> "piercing" \in flags, homing |-> "homing" \in flags,
   continuous |-> "continuous" \in flags]

\* initializeWeaponCatalog; fireRate in hundredths of an attack per second,
\* damage (like an enemy's health here) in quarters of a health point
WeaponCatalog(weaponId) ==
  CASE weaponId = "basic_turret" ->
         Weapon("Basic Turret", "ballistic", 4, TurretRange, 50, 40, 0, {})
    [] weaponId = "rapid_fire" ->
         Weapon("Rapid Fire", "ballistic", 4, TurretRange, 100, 50, 0, {})
    [] weaponId = "piercing_rounds" ->
         Weapon("Piercing Rounds", "ballistic", 4, TurretRange, 100, 50, 0, {"piercing"})
    [] weaponId = "explosive_shells" ->
         Weapon("Explosive Shells", "ballistic", 8, TurretRange, 50, 40, 6, {})
    [] weaponId = "artillery_mode" ->
         Weapon("Artillery Mode", "ballistic", 20, 40, 20, 30, 10, {})
    [] weaponId = "laser_beam" ->
         Weapon("Laser Beam", "energy", 2, 36, 1000, 0, 0, {"piercing", "continuous"})
    [] weaponId = "chain_lightning" ->
         Weapon("Chain Lightning", "energy", 8, 32, 33, 0, 16, {"homing"})
    [] weaponId = "energy_burst" ->
         Weapon("Energy Burst", "energy", 4, 24, 20, 0, 24, {})
    [] weaponId = "plasma_cannon" ->
         Weapon("Plasma Cannon", "energy", 16, 34, 25, 20, 4, {"piercing"})
    [] weaponId = "tesla_coil" ->
         Weapon("Tesla Coil", "energy", 4, 20, 500, 0, 20, {"continuous"})

\* Math.sqrt on the sums of squares that occur, all perfect squares
Sqrt(n) == CHOOSE r \in 0..n : r * r <= n /\ n < (r + 1) * (r + 1)

\* findTarget: Math.sqrt((enemy.x - tower.x) ** 2 + (enemy.y - tower.y) ** 2)
Distance(enemy) == Sqrt(enemy.x * enemy.x + enemy.y * enemy.y)

\* a filter that forgets the range
IsValidTargetAnywhere(enemy, weapon) == enemy.active /\ enemy.health > 0

\* findTarget: the filter that makes validTargets
IsValidTarget(enemy, weapon) ==
  /\ enemy.active
  /\ enemy.health > 0
  /\ Distance(enemy) <= weapon.range

\* validTargets, as the indices into enemies in the order of enemies
ValidTargets(enemies, weapon) ==
  SelectSeq([i \in 1..Len(enemies) |-> i], LAMBDA i : IsValidTarget(enemies[i], weapon))

\* a comparison that lets a later candidate win a tie
PrefersOrTies(mode, enemy, best) ==
  CASE mode = "nearest" -> Distance(enemy) <= Distance(best)
    [] mode = "furthest" -> Distance(enemy) >= Distance(best)
    [] mode = "weakest" -> enemy.health <= best.health
    [] mode = "strongest" -> enemy.health >= best.health
    [] mode = "fastest" -> enemy.speed >= best.speed
    [] mode = "slowest" -> enemy.speed <= best.speed

\* findTarget: the comparison in the reduce callback of each targeting mode
Prefers(mode, enemy, best) ==
  CASE mode = "nearest" -> Distance(enemy) < Distance(best)
    [] mode = "furthest" -> Distance(enemy) > Distance(best)
    [] mode = "weakest" -> enemy.health < best.health
    [] mode = "strongest" -> enemy.health > best.health
    [] mode = "fastest" -> enemy.speed > best.speed
    [] mode = "slowest" -> enemy.speed < best.speed

\* Array.prototype.reduce without an initial value: best starts as the first
\* valid target and rest are the others
RECURSIVE ReduceTargets(_, _, _, _)
ReduceTargets(mode, enemies, best, rest) ==
  IF rest = <<>> THEN best
  ELSE ReduceTargets(mode, enemies,
                     IF Prefers(mode, enemies[Head(rest)], enemies[best])
                     THEN Head(rest) ELSE best,
                     Tail(rest))

\* TowerWeaponSystem.findTarget: the index of the chosen enemy, 0 for null
FindTarget(t, enemies, weapon) ==
  IF ~t.tower THEN 0
  ELSE LET validTargets == ValidTargets(enemies, weapon)
       IN IF validTargets = <<>> THEN 0
          ELSE ReduceTargets(t.targetingMode, enemies, Head(validTargets), Tail(validTargets))

\* new TowerWeaponSystem().  lastFireTimes holds -1 for a weapon without an
\* entry; enemies is the array handed to the latest update, target the
\* latest answer of findTarget, fired the weapons that fired in the latest
\* update, shots the time of each weapon's latest fire event and prevShots
\* the time of the one before (-1: none); nextProjectile numbers the
\* projectiles created, log lists the damageEnemy calls of the latest update,
\* expired the projectiles it deleted for their age, cause the caller of the
\* damageEnemy calls to come
NewWeaponSystem ==
  [tower |-> FALSE, activeWeapons |-> <<>>,
   lastFireTimes |-> [id \in CatalogIds |-> -1],
   targetingMode |-> "nearest", projectiles |-> <<>>,
   totalDamageDealt |-> 0, enemiesKilled |-> 0, projectilesFired |-> 0, shotsHit |-> 0,
   nextProjectile |-> 1, log |-> <<>>, expired |-> {}, cause |-> [step |-> "none", projectile |-> 0, x |-> 0, y |-> 0],
   now |-> 0, handed |-> <<>>, enemies |-> <<>>, target |-> 0, fired |-> {},
   shots |-> [id \in CatalogIds |-> -1], prevShots |-> [id \in CatalogIds |-> -1]]

\* TowerWeaponSystem.setTower
SetTower(t) == [t EXCEPT !.tower = TRUE]

\* TowerWeaponSystem.setTargetingMode
SetTargetingMode(t, mode) == [t EXCEPT !.targetingMode = mode]

\* TowerWeaponSystem.activateWeapon, of a weapon of the catalog
ActivateWeapon(t, weaponId) ==
  [t EXCEPT !.activeWeapons = IF InSeq(weaponId, @) THEN @ ELSE Append(@, weaponId),
            !.lastFireTimes[weaponId] = 0]

\* TowerWeaponSystem.deactivateWeapon
DeactivateWeapon(t, weaponId) ==
  IF InSeq(weaponId, t.activeWeapons)
  THEN [t EXCEPT !.activeWeapons = SelectSeq(@, LAMBDA id : id # weaponId),
                 !.lastFireTimes[weaponId] = -1]
  ELSE t

\* Entity.takeDamage on an enemy that has no callbacks registered
EnemyTakeDamage(enemy, damage) ==
  IF ~enemy.active \/ enemy.health <= 0 THEN enemy
  ELSE [enemy EXCEPT !.health = Max(0, @ - damage),
                     !.active = enemy.health - damage > 0]

\* TowerWeaponSystem.damageEnemy, of the i-th enemy handed to update; log
\* keeps the calls made in the latest update, each with what t.cause says of
\* the caller
DamageEnemy(t, i, damage, weaponType) ==
  [t EXCEPT !.enemies[i] = EnemyTakeDamage(@, damage),
            !.totalDamageDealt = @ + damage,
            !.enemiesKilled = IF /\ t.enemies[i].active
                                 /\ t.enemies[i].health > 0
                                 /\ t.enemies[i].health - damage <= 0
                              THEN @ + 1 ELSE @,
            !.log = Append(@, [enemy |-> i, damage |-> damage, weaponType |-> weaponType,
                               step |-> t.cause.step, projectile |-> t.cause.projectile,
                               x |-> t.cause.x, y |-> t.cause.y,
                               wasActive |-> t.enemies[i].active])]

\* the caller of the damageEnemy calls to come: the loop that makes them and,
\* for a projectile, its id and where it is
Cause(step, projectile) ==
  [step |-> step, projectile |-> projectile.id, x |-> projectile.x, y |-> projectile.y]

\* the projectile named by the callers that have none
NoProjectile == [id |-> 0, x |-> 0, y |-> 0]

\* checkProjectileCollisions / handleProjectileHit: the distance between a
\* projectile and an enemy
ProjectileDistance(projectile, enemy) ==
  Sqrt((projectile.x - enemy.x) * (projectile.x - enemy.x)
       + (projectile.y - enemy.y) * (projectile.y - enemy.y))

\* handleProjectileHit: the area-of-effect loop over allEnemies, from the j-th on
RECURSIVE Splash(_, _, _, _)
Splash(t, projectile, hitEnemy, j) ==
  IF j > Len(t.enemies) THEN t
  ELSE IF \/ j = hitEnemy
          \/ ~t.enemies[j].active
          \/ ProjectileDistance(projectile, t.enemies[j]) > projectile.areaOfEffect
       THEN Splash(t, projectile, hitEnemy, j + 1)
       ELSE Then(DamageEnemy(t, j, projectile.damage, projectile.type),
                 LAMBDA v : Splash(v, projectile, hitEnemy, j + 1))

\* TowerWeaponSystem.handleProjectileHit of the k-th projectile (no hit
\* callbacks registered); hits keeps the enemies the projectile has hit
HandleProjectileHit(t, k, hitEnemy) ==
  LET projectile == t.projectiles[k]
      Area(v) == IF projectile.areaOfEffect > 0
                 THEN Splash([v EXCEPT !.cause = Cause("splash", projectile)],
                             projectile, hitEnemy, 1)
                 ELSE v
  IN Area(DamageEnemy([t EXCEPT !.shotsHit = @ + 1,
                                !.projectiles[k].hits = Append(@, hitEnemy),
                                !.cause = Cause("primary", projectile)],
                      hitEnemy, projectile.damage, projectile.type))

\* TowerWeaponSystem.checkProjectileCollisions of the k-th projectile, from
\* the j-th enemy on; a deleted projectile is marked inactive
RECURSIVE CheckProjectileCollisions(_, _, _)
CheckProjectileCollisions(t, k, j) ==
  IF j > Len(t.enemies) THEN t
  ELSE IF \/ ~t.enemies[j].active
          \/ ProjectileDistance(t.projectiles[k], t.enemies[j]) > t.enemies[j].radius + 1
       THEN CheckProjectileCollisions(t, k, j + 1)
       ELSE LET Pierce(v) == IF v.projectiles[k].piercing
                             THEN CheckProjectileCollisions(v, k, j + 1)
                             ELSE [v EXCEPT !.projectiles[k].active = FALSE]
            IN Pierce(HandleProjectileHit(t, k, j))

\* updateProjectiles: the lifetime check
Expired(age, lifetime) == age > lifetime

\* updateProjectiles: one pass of the loop body, on the k-th projectile.  No
\* weapon of the catalog that creates projectiles is homing, so no projectile
\* is steered.  expired keeps the ids of the projectiles the lifetime check
\* deleted in the latest update.
UpdateProjectile(t, k, deltaTime) ==
  IF ~t.projectiles[k].active THEN t
  ELSE LET Moved(v) ==
             IF Expired(v.now - v.projectiles[k].createdTime, v.projectiles[k].lifetime)
             THEN [v EXCEPT !.projectiles[k].active = FALSE,
                            !.expired = @ \cup {v.projectiles[k].id}]
             ELSE CheckProjectileCollisions(v, k, 1)
       IN Moved([t EXCEPT !.projectiles[k].x = @ + (t.projectiles[k].velocityX * deltaTime) \div 1000,
                          !.projectiles[k].y = @ + (t.projectiles[k].velocityY * deltaTime) \div 1000])

RECURSIVE UpdateProjectilesFrom(_, _, _)
UpdateProjectilesFrom(t, k, deltaTime) ==
  IF k > Len(t.projectiles) THEN t
  ELSE Then(UpdateProjectile(t, k, deltaTime),
            LAMBDA v : UpdateProjectilesFrom(v, k + 1, deltaTime))

\* TowerWeaponSystem.updateProjectiles, deltaTime in ms; the projectiles
\* deleted on the way are dropped at the end
UpdateProjectiles(t, deltaTime) ==
  LET Swept(v) == [v EXCEPT !.projectiles = SelectSeq(@, LAMBDA p : p.active)]
  IN Swept(UpdateProjectilesFrom(t, 1, deltaTime))

\* getProjectileType
ProjectileType(weaponName) ==
  CASE weaponName \in {"Explosive Shells", "Artillery Mode"} -> "shell"
    [] weaponName = "Plasma Cannon" -> "plasma"
    [] weaponName = "Chain Lightning" -> "lightning"
    [] weaponName = "Laser Beam" -> "laser"
    [] OTHER -> "bullet"

\* TowerWeaponSystem.createProjectile at the target-th enemy: the aim leads
\* the target by its velocity over the flight time.  The ids, random in the
\* code, are numbered.
CreateProjectile(t, weapon, target) ==
  IF ~t.tower \/ weapon.projectileSpeed = 0 THEN t
  ELSE LET enemy == t.enemies[target]
           Aimed(predictedX, predictedY) ==
             LET finalDistance == Sqrt(predictedX * predictedX + predictedY * predictedY)
             IN [id |-> t.nextProjectile, x |-> 0, y |-> 0,
                 velocityX |-> (predictedX * weapon.projectileSpeed) \div finalDistance,
                 velocityY |-> (predictedY * weapon.projectileSpeed) \div finalDistance,
                 damage |-> weapon.damage, range |-> weapon.range,
                 type |-> ProjectileType(weapon.name),
                 createdTime |-> t.now,
                 lifetime |-> (weapon.range * 1000) \div weapon.projectileSpeed,
                 homing |-> weapon.homing, piercing |-> weapon.piercing,
                 areaOfEffect |-> weapon.areaOfEffect, active |-> TRUE, hits |-> <<>>]
       IN [t EXCEPT !.nextProjectile = @ + 1,
                    !.projectiles =
             Append(@, Aimed(enemy.x + (enemy.velocityX * Distance(enemy)) \div weapon.projectileSpeed,
                             enemy.y + (enemy.velocityY * Distance(enemy)) \div weapon.projectileSpeed))]

\* the distance between two enemies
EnemyDistance(a, b) == Sqrt((a.x - b.x) * (a.x - b.x) + (a.y - b.y) * (a.y - b.y))

\* a search for the next link that forgets which enemies the chain has hit
RECURSIVE NextInChainRevisiting(_, _, _, _, _, _)
NextInChainRevisiting(t, currentTarget, hitTargets, j, nextTarget, closestDistance) ==
  IF j > Len(t.enemies) THEN nextTarget
  ELSE IF /\ t.enemies[j].active
          /\ EnemyDistance(t.enemies[j], t.enemies[currentTarget]) <= closestDistance
       THEN NextInChainRevisiting(t, currentTarget, hitTargets, j + 1, j,
                                  EnemyDistance(t.enemies[j], t.enemies[currentTarget]))
       ELSE NextInChainRevisiting(t, currentTarget, hitTargets, j + 1, nextTarget, closestDistance)

\* handleChainLightning: the loop that finds the next target, from the j-th
\* enemy on
RECURSIVE NextInChain(_, _, _, _, _, _)
NextInChain(t, currentTarget, hitTargets, j, nextTarget, closestDistance) ==
  IF j > Len(t.enemies) THEN nextTarget
  ELSE IF /\ j \notin hitTargets
          /\ t.enemies[j].active
          /\ EnemyDistance(t.enemies[j], t.enemies[currentTarget]) <= closestDistance
       THEN NextInChain(t, currentTarget, hitTargets, j + 1, j,
                        EnemyDistance(t.enemies[j], t.enemies[currentTarget]))
       ELSE NextInChain(t, currentTarget, hitTargets, j + 1, nextTarget, closestDistance)

\* handleChainLightning: the while loop
RECURSIVE ChainLoop(_, _, _, _, _)
ChainLoop(t, weapon, currentTarget, hitTargets, chains) ==
  IF currentTarget = 0 \/ chains >= MaxChains THEN t
  ELSE IF currentTarget \in hitTargets THEN t
  ELSE Then(DamageEnemy(t, currentTarget, weapon.damage, weapon.name),
            LAMBDA v : ChainLoop(v, weapon,
                                 NextInChain(v, currentTarget, hitTargets \cup {currentTarget}, 1, 0,
                                             IF weapon.areaOfEffect # 0
                                             THEN weapon.areaOfEffect ELSE DefaultChainRange),
                                 hitTargets \cup {currentTarget}, chains + 1))

\* TowerWeaponSystem.handleChainLightning
HandleChainLightning(t, weapon, target) ==
  IF ~t.tower THEN t
  ELSE ChainLoop([t EXCEPT !.cause = Cause("chain", NoProjectile)], weapon, target, {}, 0)

\* handleEnergyBurst: the loop over allEnemies, from the j-th on
RECURSIVE BurstFrom(_, _, _)
BurstFrom(t, weapon, j) ==
  IF j > Len(t.enemies) THEN t
  ELSE IF /\ Distance(t.enemies[j])
               <= (IF weapon.areaOfEffect # 0 THEN weapon.areaOfEffect ELSE weapon.range)
          /\ t.enemies[j].active
       THEN Then(DamageEnemy(t, j, weapon.damage, weapon.name),
                 LAMBDA v : BurstFrom(v, weapon, j + 1))
       ELSE BurstFrom(t, weapon, j + 1)

\* TowerWeaponSystem.handleEnergyBurst
HandleEnergyBurst(t, weapon) ==
  IF ~t.tower THEN t
  ELSE BurstFrom([t EXCEPT !.cause = Cause("burst", NoProjectile)], weapon, 1)

\* TowerWeaponSystem.fireEnergyWeapon
FireEnergyWeapon(t, weapon, target) ==
  IF ~t.tower THEN t
  ELSE CASE weapon.name = "Chain Lightning" -> HandleChainLightning(t, weapon, target)
         [] weapon.name = "Energy Burst" -> HandleEnergyBurst(t, weapon)
         [] weapon.name = "Plasma Cannon" -> CreateProjectile(t, weapon, target)
         [] OTHER -> DamageEnemy([t EXCEPT !.cause = Cause("direct", NoProjectile)],
                                 target, weapon.damage, weapon.name)

\* a fireWeapon that does not look at the target's active flag and health
FireWeaponUnchecked(t, weaponId, weapon, target) ==
  IF ~t.tower \/ target = 0 THEN t
  ELSE LET Counted(v) == [v EXCEPT !.projectilesFired = @ + 1,
                                   !.fired = @ \cup {weaponId},
                                   !.prevShots[weaponId] = v.shots[weaponId],
                                   !.shots[weaponId] = v.now]
       IN Counted(IF weapon.type = "ballistic" THEN CreateProjectile(t, weapon, target)
                  ELSE IF weapon.type = "energy" THEN FireEnergyWeapon(t, weapon, target)
                  ELSE t)

\* TowerWeaponSystem.fireWeapon at the target-th enemy
FireWeapon(t, weaponId, weapon, target) ==
  IF ~t.tower THEN t
  ELSE IF target = 0 \/ ~t.enemies[target].active \/ t.enemies[target].health <= 0 THEN t
  ELSE LET Counted(v) == [v EXCEPT !.projectilesFired = @ + 1,
                                   !.fired = @ \cup {weaponId},
                                   !.prevShots[weaponId] = v.shots[weaponId],
                                   !.shots[weaponId] = v.now]
       IN Counted(IF weapon.type = "ballistic" THEN CreateProjectile(t, weapon, target)
                  ELSE IF weapon.type = "energy" THEN FireEnergyWeapon(t, weapon, target)
                  ELSE t)

\* handleContinuousWeapon, Tesla Coil: the loop over enemies, from the j-th on
RECURSIVE FieldFrom(_, _, _, _)
FieldFrom(t, weapon, deltaTime, j) ==
  IF j > Len(t.enemies) THEN t
  ELSE IF /\ Distance(t.enemies[j])
               <= (IF weapon.areaOfEffect # 0 THEN weapon.areaOfEffect ELSE weapon.range)
          /\ t.enemies[j].active
       THEN Then(DamageEnemy(t, j, (weapon.damage * deltaTime) \div 1000, weapon.name),
                 LAMBDA v : FieldFrom(v, weapon, deltaTime, j + 1))
       ELSE FieldFrom(t, weapon, deltaTime, j + 1)

\* TowerWeaponSystem.handleContinuousWeapon; weapon.damage * deltaTime with
\* deltaTime in seconds, here in ms
HandleContinuousWeapon(t, weapon, deltaTime) ==
  IF ~t.tower THEN t
  ELSE IF weapon.name = "Laser Beam"
       THEN LET Beam(target) ==
                  IF target # 0
                  THEN DamageEnemy([t EXCEPT !.cause = Cause("beam", NoProjectile)], target,
                                   (weapon.damage * deltaTime) \div 1000, weapon.name)
                  ELSE t
            IN Beam(FindTarget(t, t.enemies, weapon))
       ELSE IF weapon.name = "Tesla Coil"
            THEN FieldFrom([t EXCEPT !.cause = Cause("field", NoProjectile)], weapon, deltaTime, 1)
            ELSE t

\* a gate that lets every weapon fire once a second
FireIntervalFlat(weapon) == 1000

\* updateWeapon: fireInterval = 1000 / weapon.fireRate; the clock showing whole
\* ms, the least whole number of ms that is not below it
FireInterval(weapon) == (1000 * 100 + weapon.fireRate - 1) \div weapon.fireRate

\* updateWeapon: this.lastFireTimes.get(weaponId) || 0
LastFireTime(t, weaponId) ==
  IF t.lastFireTimes[weaponId] = -1 THEN 0 ELSE t.lastFireTimes[weaponId]

\* updateWeapon: the cooldown gate and the fire it lets through
GatedFire(t, weaponId, weapon, currentTime) ==
  IF currentTime - LastFireTime(t, weaponId) >= FireInterval(weapon)
  THEN LET Shoot(target) ==
             IF target # 0
             THEN [FireWeapon([t EXCEPT !.target = target], weaponId, weapon, target)
                     EXCEPT !.lastFireTimes[weaponId] = currentTime]
             ELSE t
       IN Shoot(FindTarget(t, t.enemies, weapon))
  ELSE t

\* TowerWeaponSystem.updateWeapon
UpdateWeapon(t, weaponId, weapon, currentTime, deltaTime) ==
  IF ~t.tower THEN t
  ELSE LET Continuous(v) == IF weapon.continuous
                            THEN HandleContinuousWeapon(v, weapon, deltaTime) ELSE v
       IN Continuous(GatedFire(t, weaponId, weapon, currentTime))

\* update: the loop over activeWeapons
RECURSIVE UpdateWeapons(_, _, _, _)
UpdateWeapons(t, weaponIds, currentTime, deltaTime) ==
  IF weaponIds = <<>> THEN t
  ELSE Then(UpdateWeapon(t, Head(weaponIds), WeaponCatalog(Head(weaponIds)), currentTime, deltaTime),
            LAMBDA v : UpdateWeapons(v, Tail(weaponIds), currentTime, deltaTime))

\* TowerWeaponSystem.update(deltaTime, enemies), called when performance.now()
\* is currentTime; deltaTime in ms.  handed keeps the enemies as they were
\* handed over, enemies are the same objects as the update leaves them
WeaponSystemUpdate(t, currentTime, deltaTime, enemies) ==
  LET Projectiles(v) == UpdateProjectiles(v, deltaTime)
  IN Projectiles(UpdateWeapons([t EXCEPT !.now = currentTime, !.handed = enemies,
                                         !.enemies = enemies, !.fired = {}, !.target = 0,
                                         !.log = <<>>, !.expired = {},
                                         !.cause = Cause("none", NoProjectile)],
                               t.activeWeapons, currentTime, deltaTime))

\* TowerWeaponSystem.reset
WeaponSystemReset(t) ==
  [t EXCEPT !.projectiles = <<>>, !.totalDamageDealt = 0, !.enemiesKilled = 0,
            !.projectilesFired = 0, !.shotsHit = 0,
            !.lastFireTimes = [id \in CatalogIds |-> -1]]

\* ------------------------------------------------------ the game's states
\* PlayingState.onEnter without pause data, entered through changeState
PlayingEnterFresh(w) ==
  LET WithTower(w1) ==
        OnDestroyed([w1 EXCEPT !.game.tower = w1.ret, !.tws = SetTower(@),
                               !.game.clickables = {}],
                    w1.ret, "gameOver", "")
      Armed(w1) == [w1 EXCEPT !.tws = ActivateWeapon(@, "basic_turret")]
  IN Armed(StartWaves(WithTower(CreateEntity([w EXCEPT !.game.phase = "playing",
                                                       !.game.gameTime = 0,
                                                       !.game.score = 0,
                                                       !.tws = WeaponSystemReset(@)],
                                             "tower", TowerData))))

\* PlayingState.update: this.gameTime += deltaTime
Elapse(w, deltaTime) == [w EXCEPT !.game.gameTime = Min(MaxGameTime, @ + deltaTime)]

\* PlayingState.pauseGame
PauseGame(w) == [w EXCEPT !.wm.isPaused = TRUE, !.game.phase = "paused"]

\* PlayingState.onEnter with data whose pausedFromState is PLAYING
PlayingEnterResuming(w) ==
  [w EXCEPT !.wm.isPaused = FALSE, !.game.phase = "playing",
            !.game.pausedFromPlaying["playing"] = TRUE]

\* changeState(PLAYING) from the main menu or the game-over state: onEnter
\* gets the data the state left returned from onExit
PlayingEnter(w) ==
  IF w.game.pausedFromPlaying[w.game.phase]
  THEN PlayingEnterResuming(w) ELSE PlayingEnterFresh(w)

\* PausedState: return to the main menu
PausedToMenu(w) ==
  [w EXCEPT !.game.phase = "menu", !.game.pausedFromPlaying["menu"] = TRUE]

\* GameOverState.returnToMainMenu
GameOverToMenu(w) ==
  [w EXCEPT !.game.phase = "menu",
            !.game.pausedFromPlaying["menu"] = @ \/ w.game.pausedFromPlaying["gameover"]]

\* Game.toggleState(SKILL_TREE), the F1 key: from the skill tree to the main
\* menu, from any other state to the skill tree; changeState hands the data
\* the state left returns from onExit to the state entered, which merges it
\* into its own (the paused state's data always names PLAYING)
ToggleSkillTree(w) ==
  LET carried == IF w.game.phase = "paused" THEN TRUE
                 ELSE w.game.pausedFromPlaying[w.game.phase]
      target == IF w.game.phase = "skilltree" THEN "menu" ELSE "skilltree"
  IN [w EXCEPT !.game.phase = target,
               !.game.pausedFromPlaying[target] = @ \/ carried]

\* ------------------------------------------------------------------ world
\* activationOrder records the objects of the active sets in the order of their
\* latest acquire;
\* obs collects what the callbacks run by the latest operation saw; last names
\* that operation; trace lists the steps the operation under way has taken.
World ==
  [ents |-> ents, pools |-> pools, nextId |-> nextId, allEntities |-> allEntities,
   entitiesByType |-> entitiesByType, activationOrder |-> activationOrder,
   wm |-> wm, game |-> game, tws |-> tws, obs |-> {}, ret |-> 0, event |-> NoEvent,
   trace |-> <<>>]

Commit(w, op) ==
  /\ ents' = w.ents
  /\ pools' = w.pools
  /\ nextId' = w.nextId
  /\ allEntities' = w.allEntities
  /\ entitiesByType' = w.entitiesByType
  /\ activationOrder' = w.activationOrder
  /\ wm' = w.wm
  /\ game' = w.game
  /\ tws' = w.tws
  /\ obs' = w.obs
  /\ last' = op

\* EntityPool constructor and preallocate: the pool's first objects are
\* first .. first + initialSize - 1
NewPool(first, initialSize, maxSize) ==
  [pool |-> [i \in 1..initialSize |-> first + i - 1], active |-> <<>>,
   config |-> [initialSize |-> initialSize, maxSize |-> maxSize]]

\* an object preallocate has constructed and parked in the free list
Preallocated(k) ==
  [Factory(k, DummyData) EXCEPT !.pooled = TRUE, !.active = FALSE]

\* new WaveManager(entityManager)
NewWaveManager ==
  [currentWave |-> 0, enemiesInCurrentWave |-> 0, enemiesKilledInWave |-> 0,
   enemiesRemainingToSpawn |-> 0, activeEnemies |-> {},
   timeSinceLastSpawn |-> 0, timeUntilNextWave |-> 0,
   waveInProgress |-> FALSE, spawningEnemies |-> FALSE, isPaused |-> FALSE,
   spawnQueue |-> <<>>, prevEvent |-> NoEvent, lastEvent |-> NoEvent]

\* the state manager before the first game: main menu, no tower yet.
\* pausedFromPlaying[s] tells whether the data of state s carries
\* pausedFromState = PLAYING (GameState.setData merges, nothing removes it).
\* score and gameTime are PlayingState's, kept up to MaxScore and MaxGameTime
\* (onEnter's resume branch restores them from data that onExit or pauseGame
\* filled with their current values: it leaves them as they are); clickables are the ids
\* ClickDetection holds a clickable for; rewards[e] counts how often the score
\* and coin reward of the agent that object e was last spawned as was granted
NewGame ==
  [phase |-> "menu", tower |-> 0,
   pausedFromPlaying |-> [st \in {"menu", "playing", "gameover", "skilltree"} |-> FALSE],
   score |-> 0, gameTime |-> 0, clickables |-> {}, rewards |-> [e \in Ids |-> 0]]

\* the EntityData a caller of the enemy pool passes
EnemyDatas ==
  {[type |-> "enemy", health |-> h, maxHealth |-> 0, radius |-> 0, enemyType |-> t] :
     h \in 0..MaxDataHealth, t \in {"basic", "boss"}}

BasicData == [type |-> "enemy", health |-> 1, maxHealth |-> 0, radius |-> 0, enemyType |-> "basic"]

Op(name, e, data, evicted, oldest) ==
  [op |-> name, e |-> e, data |-> data, evicted |-> evicted, oldest |-> oldest,
   event |-> NoEvent, dt |-> 0, trace |-> <<>>]
NoOp == Op("none", 0, DummyData, 0, 0)

\* the object a forced reuse would evict, 0 when acquire takes another branch
Evicts(w, k) ==
  IF Len(w.pools[k].pool) = 0 /\ Len(w.pools[k].active) >= w.pools[k].config.maxSize
  THEN Head(w.pools[k].active) ELSE 0

\* the active object whose latest acquire is the oldest, 0 when none is active
OldestActivated(w, k) ==
  LET act == SelectSeq(w.activationOrder, LAMBDA x : InSeq(x, w.pools[k].active))
  IN IF act = <<>> THEN 0 ELSE Head(act)

\* ---------------------------------------------------- a pool used on its own
\* new EntityPool(factory, {initialSize, maxSize}); the constructor accepts any pair
InitPoolConfig(initialSize, maxSize) ==
    /\ ents = [e \in Ids |-> IF e <= initialSize THEN Preallocated("enemy") ELSE NoEntity]
    /\ pools = [k \in {"enemy"} |-> NewPool(1, initialSize, maxSize)]
    /\ nextId = initialSize + 1
    /\ wm = NewWaveManager
    /\ game = NewGame
    /\ tws = NewWeaponSystem
    /\ allEntities = {}
    /\ entitiesByType = [t \in EntityTypes |-> {}]
    /\ activationOrder = <<>>
    /\ obs = {}
    /\ last = NoOp

\* pools configured as the game configures them: initialSize <= maxSize
InitPool ==
  \E initialSize \in 1..Min(MaxInitialSize, MaxEnt), maxSize \in 1..MaxMaxSize :
    initialSize <= maxSize /\ InitPoolConfig(initialSize, maxSize)

\* every configuration the constructor accepts
InitAnyPool ==
  \E initialSize \in 1..Min(MaxInitialSize, MaxEnt), maxSize \in 1..MaxMaxSize :
    InitPoolConfig(initialSize, maxSize)

PoolAcquire(datas) ==
  \E data \in datas :
    /\ CanAcquire(World, "enemy")
    /\ LET w == Acquire(World, "enemy", data) IN
       Commit(w, Op("acquire", w.ret, data, Evicts(World, "enemy"),
                     OldestActivated(World, "enemy")))

PoolRelease ==
  \E e \in Ids :
    /\ ents[e].made
    /\ Commit(Release(World, "enemy", e), Op("release", e, DummyData, 0, 0))

EntityDestroy ==
  \E e \in Ids :
    /\ ents[e].made
    /\ Commit(Destroy(World, e), Op("destroy", e, DummyData, 0, 0))

NextPool ==
  \/ PoolAcquire({BasicData})
  \/ PoolRelease
  \/ EntityDestroy

SpecPool == InitPool /\ [][NextPool]_vars
SpecAnyPool == InitAnyPool /\ [][NextPool]_vars

\* ------------------------------------- entity lifecycle on a pooled object
\* one pooled object, in a pool of initialSize 1 and maxSize 1
InitEntity == InitPoolConfig(1, 1)

EntityTakeDamage ==
  \E e \in Ids, d \in 1..MaxDamage :
    /\ ents[e].made
    /\ Commit(TakeDamage(World, e, d), Op("takeDamage", e, DummyData, 0, 0))

EntityUpdate ==
  \E e \in Ids :
    /\ ents[e].made
    /\ Commit(Update(World, e), Op("update", e, DummyData, 0, 0))

\* a holder of a live entity subscribes to its destruction
RegisterOnDestroyed ==
  \E e \in Ids :
    /\ ents[e].active
    /\ Len(SelectSeq(ents[e].onDestroyCallbacks, LAMBDA cb : cb.fn = "observer")) < MaxCallbacks
    /\ Commit(OnDestroyed(World, e, "observer", ""), Op("onDestroyed", e, DummyData, 0, 0))

\* a holder of a live entity subscribes to its damage; the callback either
\* looks at the entity or damages it again
RegisterOnDamaged ==
  \E e \in Ids, fn \in {"observer", "redamage"} :
    /\ ents[e].active
    /\ Len(ents[e].onDamageCallbacks) < MaxCallbacks
    /\ Commit(OnDamaged(World, e, fn), Op("onDamaged", e, DummyData, 0, 0))

NextEntity ==
  \/ PoolAcquire(EnemyDatas)
  \/ PoolRelease
  \/ EntityDestroy
  \/ EntityTakeDamage
  \/ EntityUpdate
  \/ RegisterOnDestroyed
  \/ RegisterOnDamaged

SpecEntity == InitEntity /\ [][NextEntity]_vars

\* ------------------------------------------- the entity manager of the game
\* PlayingState constructor: new EntityManager(), then the tower and the enemy
\* factory are registered, each with its pool; new WaveManager(entityManager)
InitManager ==
    /\ ents = [e \in Ids |->
                 IF e <= TowerPoolSize THEN Preallocated("tower")
                 ELSE IF e <= TowerPoolSize + EnemyPoolInitialSize THEN Preallocated("enemy")
                 ELSE NoEntity]
    /\ pools = [k \in {"tower", "enemy"} |->
                  IF k = "tower" THEN NewPool(1, TowerPoolSize, TowerPoolSize)
                  ELSE NewPool(TowerPoolSize + 1, EnemyPoolInitialSize, EnemyPoolMaxSize)]
    /\ nextId = TowerPoolSize + EnemyPoolInitialSize + 1
    /\ allEntities = {}
    /\ entitiesByType = [t \in EntityTypes |-> {}]
    /\ activationOrder = <<>>
    /\ wm = NewWaveManager
    /\ game = NewGame
    /\ tws = NewWeaponSystem
    /\ obs = {}
    /\ last = NoOp

\* the data the game's callers of createEntity pass for a kind
KindDatas(kind) == IF kind = "tower" THEN {TowerData} ELSE {BasicData}

ManagerCreateEntity ==
  \E kind \in {"tower", "enemy"} : \E data \in KindDatas(kind) :
    /\ CanAcquire(World, kind)
    /\ LET w == CreateEntity(World, kind, data) IN
       Commit(w, Op("createEntity", w.ret, data, 0, 0))

EntityManagerUpdate ==
  Commit(ManagerUpdate(World), Op("update", 0, DummyData, 0, 0))

NextManager ==
  \/ ManagerCreateEntity
  \/ EntityDestroy
  \/ EntityManagerUpdate

SpecManager == InitManager /\ [][NextManager]_vars

\* ------------------------------------------------------- the game's waves
DeltaTimes == {MaxDt \div 2, MaxDt}

WaveOp(name, w) == [Op(name, 0, DummyData, 0, 0) EXCEPT !.event = w.event]

\* the wave update of a tick would start a wave beyond MaxWave
BeyondMaxWave(dt) ==
  /\ ~wm.isPaused /\ ~wm.waveInProgress
  /\ wm.timeUntilNextWave > 0 /\ wm.timeUntilNextWave - dt <= 0
  /\ wm.currentWave >= MaxWave

\* main menu "play", or game over "restart": changeState(PLAYING)
EnterPlaying ==
  /\ game.phase \in {"menu", "gameover"}
  /\ CanAcquire(World, "tower")
  /\ LET w == PlayingEnter(World) IN Commit(w, WaveOp("enterPlaying", w))

\* PlayingState.update, one frame as the waves see it: the wave manager, then
\* every entity.  What the weapon system's pass does to the enemies in between
\* is a destroy of an enemy, which ClickEnemy makes at any time
PlayingUpdate ==
  \E dt \in DeltaTimes : \E pick \in Picks(wm.spawnQueue) \cup {1} :
    /\ game.phase = "playing"
    /\ pick <= Max(1, Len(wm.spawnQueue))
    /\ ~BeyondMaxWave(dt)
    /\ CanAcquire(World, "enemy")
    /\ LET w == ManagerUpdate(WaveManagerUpdate(Elapse(World, dt), dt, pick))
       IN Commit(w, WaveOp("update", w))

\* the player clicks an enemy (onClick: enemy.destroy())
ClickEnemy ==
  \E e \in Ids :
    /\ game.phase = "playing"
    /\ ents[e].cls = "Enemy" /\ ents[e].active
    /\ LET w == Destroy(World, e) IN
       Commit(w, [WaveOp("destroy", w) EXCEPT !.e = e])

Pause ==
  /\ game.phase = "playing"
  /\ Commit(PauseGame(World), Op("pause", 0, DummyData, 0, 0))

Resume ==
  /\ game.phase = "paused"
  /\ Commit(PlayingEnterResuming(World), Op("resume", 0, DummyData, 0, 0))

QuitToMenu ==
  /\ game.phase \in {"paused", "gameover"}
  /\ Commit(IF game.phase = "paused" THEN PausedToMenu(World) ELSE GameOverToMenu(World),
            Op("quit", 0, DummyData, 0, 0))

ForceWave ==
  /\ game.phase = "playing"
  /\ Commit(ForceNextWave(World), Op("forceNextWave", 0, DummyData, 0, 0))

NextWave ==
  \/ EnterPlaying
  \/ PlayingUpdate
  \/ ClickEnemy
  \/ Pause
  \/ Resume
  \/ QuitToMenu
  \/ ForceWave

SpecWave == InitManager /\ [][NextWave]_vars

\* the runs of the game with the skill tree opened and closed in between;
\* the entry into the playing state keeps the steps onEnter takes
RunEnter ==
  /\ game.phase \in {"menu", "gameover"}
  /\ CanAcquire(World, "tower")
  /\ \E w \in {PlayingEnter(World)} :
       Commit(w, [WaveOp("enterPlaying", w) EXCEPT !.trace = w.trace])

RunToggleSkillTree ==
  Commit(ToggleSkillTree(World), Op("toggleSkillTree", 0, DummyData, 0, 0))

NextRun ==
  \/ RunEnter
  \/ PlayingUpdate
  \/ ClickEnemy
  \/ Pause
  \/ Resume
  \/ QuitToMenu
  \/ RunToggleSkillTree

SpecRun == InitManager /\ [][NextRun]_vars

\* ------------------------------------------- one frame of the playing state
\* where the weapon system sees an enemy that has pos steps left to the
\* tower's attack range: on the x axis, 65 px a step
EnemyX(pos) == AttackRange + StepLength * pos

\* the Enemy object as the weapon system reads it (health in quarters)
EnemyView(ent) ==
  [active |-> ent.active, health |-> 4 * ent.health, x |-> EnemyX(ent.pos), y |-> 0,
   velocityX |-> 0, velocityY |-> 0, speed |-> 100, radius |-> ent.radius \div 5]

\* PlayingState.update: getEntitiesByType('enemy') filtered to the active ones
\* with health left, in the order they were added
ValidEnemies(w) ==
  SelectSeq(w.activationOrder,
            LAMBDA e : /\ e \in w.entitiesByType["enemy"]
                       /\ w.ents[e].active /\ w.ents[e].health > 0)

\* score += enemy.reward and dropCoins(enemy.reward, ...): one grant of the
\* reward of the agent e
GrantReward(w, e) ==
  [w EXCEPT !.game.score = Min(MaxScore, @ + BasicReward),
            !.game.rewards[e] = @ + 1]

\* PlayingState.setupTowerWeaponEvents: the onEnemyKilled callback
OnEnemyKilled(w, e) == GrantReward(w, e)

\* PlayingState.setupWaveEvents: the onClick handler of a spawned enemy
OnClick(w, e) ==
  Destroy([GrantReward(w, e) EXCEPT !.game.clickables = @ \ {e}], e)

\* the damageEnemy calls of a weapon system update, made on the objects:
\* enemy.takeDamage with the callbacks it runs, and the onEnemyKilled
\* callback when takeDamage reports that the enemy died
RECURSIVE TakeLoggedDamage(_, _, _)
TakeLoggedDamage(w, ids, log) ==
  IF log = <<>> THEN w
  ELSE LET enemy == ids[Head(log).enemy]
           hit == w.ents[enemy].active /\ w.ents[enemy].health > 0
           Died(v) == IF hit /\ v.ents[enemy].health <= 0 THEN OnEnemyKilled(v, enemy) ELSE v
       IN Then(Then(TakeDamage([w EXCEPT !.trace = Append(@, Event("damageEnemy", enemy,
                                                                Head(log).step))],
                               enemy, Head(log).damage \div 4),
                    Died),
               LAMBDA v : TakeLoggedDamage(v, ids, Tail(log)))

\* PlayingState.update: towerWeaponSystem.update(deltaTime, validEnemies)
UpdateTowerWeapons(w, deltaTime, currentTime) ==
  LET Handed(v, ids) ==
        [v EXCEPT !.trace = @ \o [i \in 1..Len(ids) |-> Event("handed", ids[i], "")]]
      Fought(ids) ==
        Then(WeaponSystemUpdate(w.tws, currentTime, 50 * deltaTime,
                                [i \in 1..Len(ids) |-> EnemyView(w.ents[ids[i]])]),
             LAMBDA t : TakeLoggedDamage([Handed(w, ids) EXCEPT !.tws = t], ids, t.log))
  IN Then(ValidEnemies(w), Fought)

\* EntityManager.update as PlayingState.update calls it; the trace names the
\* objects that are active when the pass starts
RegistryPass(w) ==
  LET present == SelectSeq(w.pools["tower"].active \o w.pools["enemy"].active,
                           LAMBDA e : w.ents[e].active)
  IN ManagerUpdate([w EXCEPT !.trace = @ \o [i \in 1..Len(present) |->
                                                Event("present", present[i], "")]])

\* a frame that updates the weapon system ahead of the wave manager
PlayingStateUpdateWeaponsFirst(w, deltaTime, pick, currentTime) ==
  Then(Then(UpdateTowerWeapons(Elapse(w, deltaTime), deltaTime, currentTime),
            LAMBDA v : WaveManagerUpdate(v, deltaTime, pick)),
       RegistryPass)

\* PlayingState.update(deltaTime) when performance.now() is currentTime: the
\* wave manager, the weapon system (weapons, then projectiles), the entity
\* manager.  The currency system and the click detection read the objects only
PlayingStateUpdate(w, deltaTime, pick, currentTime) ==
  Then(Then(WaveManagerUpdate(Elapse(w, deltaTime), deltaTime, pick),
            LAMBDA v : UpdateTowerWeapons(v, deltaTime, currentTime)),
       RegistryPass)

\* main menu "play" when the clock shows StartClock
FrameEnter ==
  /\ game.phase = "menu"
  /\ CanAcquire(World, "tower")
  /\ \E w \in {PlayingEnter(World)} :
       Commit([w EXCEPT !.tws.now = StartClock], WaveOp("enterPlaying", w))

\* one frame, deltaTime after the previous one
FrameUpdate ==
  \E dt \in DeltaTimes : \E pick \in Picks(wm.spawnQueue) \cup {1} :
    /\ game.phase = "playing"
    /\ pick <= Max(1, Len(wm.spawnQueue))
    /\ ~BeyondMaxWave(dt)
    /\ CanAcquire(World, "enemy")
    /\ tws.now + 50 * dt <= StartClock + MaxFrameTime
    /\ \E w \in {PlayingStateUpdate(World, dt, pick, tws.now + 50 * dt)} :
         Commit(w, [WaveOp("frame", w) EXCEPT !.trace = w.trace, !.dt = dt])

\* the skill tree activates another weapon of the tower
FrameActivateWeapon ==
  \E weaponId \in {"piercing_rounds", "explosive_shells"} :
    /\ game.phase = "playing"
    /\ ~InSeq(weaponId, tws.activeWeapons)
    /\ Len(tws.activeWeapons) < MaxWeapons
    /\ Commit([World EXCEPT !.tws = ActivateWeapon(tws, weaponId)],
              Op("activateWeapon", 0, DummyData, 0, 0))

NextFrame ==
  \/ FrameEnter
  \/ FrameUpdate
  \/ FrameActivateWeapon

SpecFrame == InitManager /\ [][NextFrame]_vars

\* PlayingState.handleWorldClick at the spot where ClickDetection holds the
\* clickable of e, when no coin lies there to be collected instead:
\* handleClick finds the clickable and calls its onClick
FrameClick ==
  \E e \in game.clickables :
    /\ game.phase = "playing"
    /\ \E w \in {OnClick(World, e)} :
         Commit(w, [WaveOp("click", w) EXCEPT !.e = e, !.trace = w.trace])

NextReward ==
  \/ FrameEnter
  \/ FrameUpdate
  \/ FrameActivateWeapon
  \/ FrameClick

SpecReward == InitManager /\ [][NextReward]_vars

\* ------------------------------------------- the wave manager used on its own
\* WaveManager.pause / WaveManager.resume
WavePause(w) == [w EXCEPT !.wm.isPaused = TRUE]
WaveResume(w) == [w EXCEPT !.wm.isPaused = FALSE]

\* the public operations of a WaveManager, called in any order
DirStartWaves ==
  \E w \in {StartWaves(World)} : Commit(w, WaveOp("startWaves", w))

DirUpdate ==
  \E dt \in DeltaTimes : \E pick \in Picks(wm.spawnQueue) \cup {1} :
    /\ pick <= Max(1, Len(wm.spawnQueue))
    /\ ~BeyondMaxWave(dt)
    /\ CanAcquire(World, "enemy")
    /\ \E w \in {WaveManagerUpdate(World, dt, pick)} : Commit(w, WaveOp("update", w))

\* an enemy is destroyed (killed by a weapon, clicked, or by its own attack)
DirKill(e) ==
  /\ ents[e].cls = "Enemy" /\ ents[e].active
  /\ \E w \in {Destroy(World, e)} : Commit(w, Op("destroy", e, DummyData, 0, 0))

DirPause == Commit(WavePause(World), Op("pause", 0, DummyData, 0, 0))

DirResume == Commit(WaveResume(World), Op("resume", 0, DummyData, 0, 0))

DirStopWaves == Commit(StopWaves(World), Op("stopWaves", 0, DummyData, 0, 0))

DirForceNextWave == Commit(ForceNextWave(World), Op("forceNextWave", 0, DummyData, 0, 0))

NextDirector ==
  \/ DirStartWaves
  \/ DirUpdate
  \/ \E e \in Ids : DirKill(e)
  \/ DirPause
  \/ DirResume
  \/ DirStopWaves
  \/ DirForceNextWave

SpecDirector == InitManager /\ [][NextDirector]_vars

\* one run of the waves: startWaves once, then update is called again and
\* again, the director is never paused, and every enemy is destroyed in the end
LiveStartWaves ==
  /\ wm.currentWave = 0 /\ ~wm.waveInProgress
  /\ DirStartWaves

DirKillAny == \E e \in Ids : DirKill(e)

NextDirectorLive ==
  \/ LiveStartWaves
  \/ DirUpdate
  \/ DirKillAny

\* one run of the waves with short frames, to observe when a spawn happens
ScheduleDts == {1, MaxFineDt}

ScheduleUpdate ==
  \E dt \in ScheduleDts : \E pick \in Picks(wm.spawnQueue) \cup {1} :
    /\ pick <= Max(1, Len(wm.spawnQueue))
    /\ ~BeyondMaxWave(dt)
    /\ CanAcquire(World, "enemy")
    /\ \E w \in {WaveManagerUpdate(World, dt, pick)} :
         Commit(w, [WaveOp("update", w) EXCEPT !.dt = dt])

NextSchedule ==
  \/ LiveStartWaves
  \/ ScheduleUpdate
  \/ DirKillAny

SpecSchedule == InitManager /\ [][NextSchedule]_vars

\* the wave configurations: a manager that waits for wave k + 1 after wave k
\* was completed with every enemy killed (k = 0: a new manager), observed
\* until that wave has started
WaitingAfter(k) ==
  IF k = 0 THEN NewWaveManager
  ELSE [NewWaveManager EXCEPT !.currentWave = k,
                              !.enemiesInCurrentWave = EnemyCount(k),
                              !.enemiesKilledInWave = EnemyCount(k),
                              !.timeUntilNextWave = NextWaveDelay,
                              !.prevEvent = WaveEvent("started", k, IF k = 1 THEN "startWaves" ELSE "update"),
                              !.lastEvent = WaveEvent("completed", k, "update")]

InitConfig ==
    /\ ents = [e \in Ids |->
                 IF e <= TowerPoolSize THEN Preallocated("tower")
                 ELSE IF e <= TowerPoolSize + EnemyPoolInitialSize THEN Preallocated("enemy")
                 ELSE NoEntity]
    /\ pools = [k \in {"tower", "enemy"} |->
                  IF k = "tower" THEN NewPool(1, TowerPoolSize, TowerPoolSize)
                  ELSE NewPool(TowerPoolSize + 1, EnemyPoolInitialSize, EnemyPoolMaxSize)]
    /\ nextId = TowerPoolSize + EnemyPoolInitialSize + 1
    /\ allEntities = {}
    /\ entitiesByType = [t \in EntityTypes |-> {}]
    /\ activationOrder = <<>>
    /\ wm \in {WaitingAfter(k) : k \in 0..(MaxConfigWave - 1)}
    /\ game = NewGame
    /\ tws = NewWeaponSystem
    /\ obs = {}
    /\ last = NoOp

ConfigUpdate ==
  \E dt \in DeltaTimes :
    /\ ~wm.waveInProgress
    /\ \E w \in {WaveManagerUpdate(World, dt, 1)} : Commit(w, WaveOp("update", w))

NextConfig ==
  \/ LiveStartWaves
  \/ ConfigUpdate

SpecConfig == InitConfig /\ [][NextConfig]_vars

SpecDirectorLive ==
  /\ InitManager
  /\ [][NextDirectorLive]_vars
  /\ WF_vars(DirUpdate)
  /\ WF_vars(DirKillAny)

\* --------------------------------------------------- target selection alone
WeaponOp(name) == Op(name, 0, DummyData, 0, 0)

\* the enemies findTarget is tried on: alive ones at 50, 100, 150 or 200 px
\* from the tower, on either side of it, a dead one and an inactive one
TargetCandidates ==
  {[active |-> TRUE, health |-> 4 * h, x |-> x, y |-> 0, velocityX |-> 0, velocityY |-> 0,
    speed |-> s, radius |-> EnemyCtorRadius \div 5] :
     h \in 1..MaxDataHealth, x \in {-10, 20, 30, -40}, s \in {100, 150}}
  \cup {[active |-> a, health |-> IF a THEN 0 ELSE 4, x |-> 20, y |-> 0,
          velocityX |-> 0, velocityY |-> 0, speed |-> 100,
          radius |-> EnemyCtorRadius \div 5] : a \in BOOLEAN}

TargetLists == UNION {[1..n -> TargetCandidates] : n \in 0..MaxTargets}

\* a weapon system with its tower set, about to be handed one of the lists
InitTargeting ==
    /\ ents = [e \in Ids |-> NoEntity]
    /\ pools = [k \in {"enemy"} |-> NewPool(1, 0, 1)]
    /\ nextId = 1
    /\ wm = NewWaveManager
    /\ game = NewGame
    /\ tws \in {[SetTower(NewWeaponSystem) EXCEPT !.enemies = enemies] : enemies \in TargetLists}
    /\ allEntities = {}
    /\ entitiesByType = [t \in EntityTypes |-> {}]
    /\ activationOrder = <<>>
    /\ obs = {}
    /\ last = NoOp

TargetingSetMode ==
  \E mode \in TargetingModes :
    Commit([World EXCEPT !.tws = SetTargetingMode(tws, mode)], WeaponOp("setTargetingMode"))

TargetingFindTarget ==
  \E weaponId \in WeaponIds :
    Commit([World EXCEPT !.tws.target = FindTarget(tws, tws.enemies, WeaponCatalog(weaponId))],
           WeaponOp("findTarget"))

NextTargeting ==
  \/ TargetingSetMode
  \/ TargetingFindTarget

SpecTargeting == InitTargeting /\ [][NextTargeting]_vars

\* ------------------------------------------------- the weapon system alone
\* a live enemy standing x units from the tower
LiveEnemy(x) ==
  [active |-> TRUE, health |-> 4 * MaxDataHealth, x |-> x, y |-> 0, velocityX |-> 0,
   velocityY |-> 0, speed |-> 100, radius |-> EnemyCtorRadius \div 5]

\* the arrays handed to update: no enemy, one in range, one out of range
WeaponEnemyLists == {<<>>, <<LiveEnemy(20)>>, <<LiveEnemy(-40)>>}

\* the time between two calls of update, in ms
Ticks == {500, 1500}

\* new TowerWeaponSystem()
InitWeapon ==
    /\ ents = [e \in Ids |-> NoEntity]
    /\ pools = [k \in {"enemy"} |-> NewPool(1, 0, 1)]
    /\ nextId = 1
    /\ wm = NewWaveManager
    /\ game = NewGame
    /\ tws = NewWeaponSystem
    /\ allEntities = {}
    /\ entitiesByType = [t \in EntityTypes |-> {}]
    /\ activationOrder = <<>>
    /\ obs = {}
    /\ last = NoOp

WeaponSetTower ==
  Commit([World EXCEPT !.tws = SetTower(tws)], WeaponOp("setTower"))

WeaponActivate ==
  \E weaponId \in WeaponIds :
    Commit([World EXCEPT !.tws = ActivateWeapon(tws, weaponId)], WeaponOp("activateWeapon"))

WeaponDeactivate ==
  \E weaponId \in WeaponIds :
    Commit([World EXCEPT !.tws = DeactivateWeapon(tws, weaponId)], WeaponOp("deactivateWeapon"))

\* update(deltaTime, enemies), a tick after the previous call
WeaponUpdate ==
  \E tick \in Ticks, enemies \in WeaponEnemyLists :
    /\ tws.now + tick <= MaxNow
    /\ \E t \in {WeaponSystemUpdate(tws, tws.now + tick, tick, enemies)} :
         Commit([World EXCEPT !.tws = t], WeaponOp("update"))

NextWeapon ==
  \/ WeaponSetTower
  \/ WeaponActivate
  \/ WeaponDeactivate
  \/ WeaponUpdate

SpecWeapon == InitWeapon /\ [][NextWeapon]_vars

\* the weapon system driven by reset() as well
WeaponReset ==
  Commit([World EXCEPT !.tws = WeaponSystemReset(tws)], WeaponOp("reset"))

NextRearm ==
  \/ WeaponSetTower
  \/ WeaponActivate
  \/ WeaponDeactivate
  \/ WeaponReset
  \/ WeaponUpdate

SpecRearm == InitWeapon /\ [][NextRearm]_vars

\* ------------------------------------------------------ chain lightning alone
\* an enemy standing x units from the tower
StandingEnemy(x, health, active) ==
  [active |-> active, health |-> health, x |-> x, y |-> 0, velocityX |-> 0,
   velocityY |-> 0, speed |-> 100, radius |-> EnemyCtorRadius \div 5]

\* the enemies a chain is tried on: live ones 50 and 100 px from the tower,
\* one 175 px away (out of the weapon's range, within 80 px of the second),
\* one 50 px away on the other side (more than 80 px from all others) and an
\* inactive one
ChainCandidates ==
  {StandingEnemy(10, 16, TRUE), StandingEnemy(20, 4, TRUE), StandingEnemy(35, 8, TRUE),
   StandingEnemy(-10, 8, TRUE), StandingEnemy(10, 4, FALSE)}

ChainLists == UNION {[1..n -> ChainCandidates] : n \in 0..MaxChainEnemies}

\* new TowerWeaponSystem(), setTower, activateWeapon('chain_lightning'); the
\* caller holds one of the lists
InitChain ==
    /\ ents = [e \in Ids |-> NoEntity]
    /\ pools = [k \in {"enemy"} |-> NewPool(1, 0, 1)]
    /\ nextId = 1
    /\ wm = NewWaveManager
    /\ game = NewGame
    /\ tws \in {[ActivateWeapon(SetTower(NewWeaponSystem), "chain_lightning")
                   EXCEPT !.enemies = enemies] : enemies \in ChainLists}
    /\ allEntities = {}
    /\ entitiesByType = [t \in EntityTypes |-> {}]
    /\ activationOrder = <<>>
    /\ obs = {}
    /\ last = NoOp

ChainSetMode ==
  \E mode \in {"nearest", "furthest"} :
    Commit([World EXCEPT !.tws = SetTargetingMode(tws, mode)], WeaponOp("setTargetingMode"))

\* update(deltaTime, enemies) with the enemies the caller holds, 2 or 4 s
\* after the previous call
ChainUpdate ==
  \E tick \in {2000, 4000} :
    /\ tws.now + tick <= MaxNow
    /\ \E t \in {WeaponSystemUpdate(tws, tws.now + tick, tick, tws.enemies)} :
         Commit([World EXCEPT !.tws = t], WeaponOp("update"))

NextChain ==
  \/ ChainSetMode
  \/ ChainUpdate

SpecChain == InitChain /\ [][NextChain]_vars

\* ---------------------------------------------------------- projectiles alone
\* the weapons of the catalog that create projectiles, the basic turret aside
ProjectileWeapons ==
  {"rapid_fire", "piercing_rounds", "explosive_shells", "artillery_mode", "plasma_cannon"}

\* the enemies the caller holds: a strong one 100 px from the tower, alone or
\* with another at the same place, with another 275 px away, or with three
\* weak ones within 30 px of it; and a strong one 35 px from the tower
ProjectileLists ==
  {<<StandingEnemy(20, 64, TRUE)>>,
   <<StandingEnemy(20, 64, TRUE), StandingEnemy(20, 64, TRUE)>>,
   <<StandingEnemy(20, 64, TRUE), StandingEnemy(55, 64, TRUE)>>,
   <<StandingEnemy(20, 64, TRUE), StandingEnemy(24, 4, TRUE), StandingEnemy(16, 4, TRUE),
     StandingEnemy(26, 4, TRUE)>>,
   <<StandingEnemy(7, 64, TRUE)>>}

\* the time between two calls of update, in ms
FlightTicks == {100, 500}

\* new TowerWeaponSystem() when the clock shows StartClock, setTower,
\* activateWeapon of one weapon; the caller holds one of the lists
InitProjectile ==
    /\ ents = [e \in Ids |-> NoEntity]
    /\ pools = [k \in {"enemy"} |-> NewPool(1, 0, 1)]
    /\ nextId = 1
    /\ wm = NewWaveManager
    /\ game = NewGame
    /\ tws \in {[ActivateWeapon(SetTower(NewWeaponSystem), weaponId)
                   EXCEPT !.enemies = enemies, !.now = StartClock] :
                  weaponId \in ProjectileWeapons, enemies \in ProjectileLists}
    /\ allEntities = {}
    /\ entitiesByType = [t \in EntityTypes |-> {}]
    /\ activationOrder = <<>>
    /\ obs = {}
    /\ last = NoOp

\* update(deltaTime, enemies) with the enemies the caller holds
ProjectileUpdate ==
  \E tick \in FlightTicks :
    /\ tws.now + tick <= StartClock + MaxFlight
    /\ \E t \in {WeaponSystemUpdate(tws, tws.now + tick, tick, tws.enemies)} :
         Commit([World EXCEPT !.tws = t], WeaponOp("update"))

NextProjectile ==
  \/ ProjectileUpdate

SpecProjectile == InitProjectile /\ [][NextProjectile]_vars

\* ---------------------------------------------------- continuous weapons alone
\* the weapons of the catalog marked continuous
ContinuousWeapons == {"laser_beam", "tesla_coil"}

\* new TowerWeaponSystem() when the clock shows StartClock, setTower,
\* activateWeapon of one continuous weapon; the caller holds one of the lists
InitBeam ==
    /\ ents = [e \in Ids |-> NoEntity]
    /\ pools = [k \in {"enemy"} |-> NewPool(1, 0, 1)]
    /\ nextId = 1
    /\ wm = NewWaveManager
    /\ game = NewGame
    /\ tws \in {[ActivateWeapon(SetTower(NewWeaponSystem), weaponId)
                   EXCEPT !.enemies = enemies, !.now = StartClock] :
                  weaponId \in ContinuousWeapons, enemies \in ProjectileLists}
    /\ allEntities = {}
    /\ entitiesByType = [t \in EntityTypes |-> {}]
    /\ activationOrder = <<>>
    /\ obs = {}
    /\ last = NoOp

BeamSetMode ==
  \E mode \in TargetingModes :
    Commit([World EXCEPT !.tws = SetTargetingMode(tws, mode)], WeaponOp("setTargetingMode"))

\* update(deltaTime, enemies) with the enemies the caller holds, half a second
\* or a second after the previous call
BeamUpdate ==
  \E tick \in {500, 1000} :
    /\ tws.now + tick <= StartClock + MaxFlight
    /\ \E t \in {WeaponSystemUpdate(tws, tws.now + tick, tick, tws.enemies)} :
         Commit([World EXCEPT !.tws = t], WeaponOp("update"))

NextBeam ==
  \/ BeamSetMode
  \/ BeamUpdate

SpecBeam == InitBeam /\ [][NextBeam]_vars

\* ------------------------------------- calls on objects that are not active
\* the enemies the weapon system's caller holds: a live one and one that went
\* inactive after it was selected
StaleTargets == <<StandingEnemy(20, 4, TRUE), StandingEnemy(20, 4, FALSE)>>

\* one pooled object as in InitEntity; a weapon system with its tower set and
\* the laser beam active
InitGuarded ==
    /\ ents = [e \in Ids |-> IF e <= 1 THEN Preallocated("enemy") ELSE NoEntity]
    /\ pools = [k \in {"enemy"} |-> NewPool(1, 1, 1)]
    /\ nextId = 2
    /\ wm = NewWaveManager
    /\ game = NewGame
    /\ tws = [ActivateWeapon(SetTower(NewWeaponSystem), "laser_beam")
                EXCEPT !.enemies = StaleTargets]
    /\ allEntities = {}
    /\ entitiesByType = [t \in EntityTypes |-> {}]
    /\ activationOrder = <<>>
    /\ obs = {}
    /\ last = NoOp

\* fireWeapon(weaponId, weapon, target) with a target selected earlier
GuardedFireWeapon ==
  \E target \in 1..Len(tws.enemies) :
    Commit([World EXCEPT !.tws = FireWeapon(tws, "laser_beam", WeaponCatalog("laser_beam"), target)],
           Op("fireWeapon", target, DummyData, 0, 0))

NextGuarded ==
  \/ PoolAcquire(EnemyDatas)
  \/ PoolRelease
  \/ EntityDestroy
  \/ EntityTakeDamage
  \/ EntityUpdate
  \/ RegisterOnDestroyed
  \/ RegisterOnDamaged
  \/ GuardedFireWeapon

SpecGuarded == InitGuarded /\ [][NextGuarded]_vars

\* --------------------------- the update passes, called on their own
\* the weapons the passes are run with
PassWeapons == {"basic_turret", "plasma_cannon"}

\* the PlayingState's entity manager and a weapon system with its tower set
\* and one weapon active, when the clock shows StartClock
InitPasses ==
    /\ ents = [e \in Ids |->
                 IF e <= TowerPoolSize THEN Preallocated("tower")
                 ELSE IF e <= TowerPoolSize + EnemyPoolInitialSize THEN Preallocated("enemy")
                 ELSE NoEntity]
    /\ pools = [k \in {"tower", "enemy"} |->
                  IF k = "tower" THEN NewPool(1, TowerPoolSize, TowerPoolSize)
                  ELSE NewPool(TowerPoolSize + 1, EnemyPoolInitialSize, EnemyPoolMaxSize)]
    /\ nextId = TowerPoolSize + EnemyPoolInitialSize + 1
    /\ allEntities = {}
    /\ entitiesByType = [t \in EntityTypes |-> {}]
    /\ activationOrder = <<>>
    /\ wm = NewWaveManager
    /\ game = NewGame
    /\ tws \in {[ActivateWeapon(SetTower(NewWeaponSystem), weaponId) EXCEPT !.now = StartClock] :
                  weaponId \in PassWeapons}
    /\ obs = {}
    /\ last = NoOp

\* towerWeaponSystem.update(deltaTime, validEnemies)
PassUpdateWeapons ==
  \E dt \in DeltaTimes :
    /\ tws.now + 50 * dt <= StartClock + MaxFlight
    /\ \E w \in {UpdateTowerWeapons(World, dt, tws.now + 50 * dt)} :
         Commit(w, [Op("weapons", 0, DummyData, 0, 0) EXCEPT !.trace = w.trace])

\* entityManager.update(deltaTime)
PassUpdateRegistry ==
  \E w \in {RegistryPass(World)} :
    Commit(w, [Op("registry", 0, DummyData, 0, 0) EXCEPT !.trace = w.trace])

NextPasses ==
  \/ ManagerCreateEntity
  \/ PassUpdateWeapons
  \/ PassUpdateRegistry

SpecPasses == InitPasses /\ [][NextPasses]_vars

\* ----------------------------------------- the steps of a forced reuse
\* acquire(data), with the steps it takes
EvictingAcquire ==
  \E data \in {BasicData} :
    /\ CanAcquire(World, "enemy")
    /\ \E w \in {Acquire(World, "enemy", data)} :
         Commit(w, [Op("acquire", w.ret, data, Evicts(World, "enemy"),
                       OldestActivated(World, "enemy")) EXCEPT !.trace = w.trace])

NextEvicting ==
  \/ EvictingAcquire
  \/ PoolRelease
  \/ EntityDestroy

SpecEvicting == InitPool /\ [][NextEvicting]_vars

\* ------------------------------------------------ forcing the next wave
\* forceNextWave(); the record of the call keeps the time that was left
\* until the next wave (0: the director was not waiting)
ForcedNextWave ==
  Commit(ForceNextWave(World),
         [Op("forceNextWave", 0, DummyData, 0, 0)
            EXCEPT !.dt = IF wm.waveInProgress THEN 0 ELSE wm.timeUntilNextWave])

NextForced ==
  \/ DirStartWaves
  \/ DirUpdate
  \/ \E e \in Ids : DirKill(e)
  \/ DirPause
  \/ DirResume
  \/ DirStopWaves
  \/ ForcedNextWave

SpecForced == InitManager /\ [][NextForced]_vars

\* ------------------------------------------------------------ pool claims
PoolKinds == DOMAIN pools

\* C1: the active set of a pool never holds more than config.maxSize objects.
PoolBound ==
  \A k \in PoolKinds : Len(pools[k].active) <= pools[k].config.maxSize

\* C2: no object is both in the free list and in the active set of its pool.
PoolDisjoint ==
  \A k \in PoolKinds : SeqToSet(pools[k].pool) \cap SeqToSet(pools[k].active) = {}

\* C3: an acquire at capacity with an empty free list evicts the active
\* object whose latest activation is the oldest and leaves maxSize active.
EvictsOldestActivated ==
  (last.op = "acquire" /\ last.evicted # 0) =>
     /\ last.evicted = last.oldest
     /\ \A k \in PoolKinds : Len(pools[k].active) = pools[k].config.maxSize

\* ---------------------------------------------------------- entity claims
CallbackFns(cbs) == [i \in 1..Len(cbs) |-> cbs[i].fn]

\* C4: the object acquire hands out carries exactly the state the new
\* initData specifies (nothing of the previous occupant) and only the
\* pool's own destroy callback.
AcquireYieldsInitData ==
  last.op = "acquire" =>
    LET ent == ents[last.e]
        h == OrDefault(last.data.health, DefaultHealth)
    IN /\ ent.active
       /\ ent.health = h
       /\ ent.maxHealth = OrDefault(last.data.maxHealth, h)
       /\ ent.radius = OrDefault(last.data.radius, DefaultRadius)
       /\ ent.vel = 0
       /\ ent.age = 0
       /\ ent.enemyType = (IF last.data.enemyType # "" THEN last.data.enemyType ELSE "basic")
       /\ ent.distanceToTarget = 0
       /\ ent.lastSpawnTime = 0
       /\ CallbackFns(ent.onDestroyCallbacks) = <<"release">>
       /\ ent.onDamageCallbacks = <<>>

\* C5: health never drops below zero, and an object whose health reached
\* zero has run each of its destroy callbacks exactly once, then onDestroy.
DamageDestroysOnce ==
  \A e \in Ids :
     /\ ents[e].health >= 0
     /\ ents[e].fired # <<>> =>
           ents[e].fired = CallbackFns(ents[e].onDestroyCallbacks) \o <<"onDestroy">>
     /\ (ents[e].made /\ ents[e].health = 0) =>
           (~ents[e].active /\ ents[e].fired # <<>>)

DamageDestroysOnceWitness ==
  /\ last.op = "takeDamage"
  /\ ents[last.e].health = 0
  /\ InSeq("redamage", CallbackFns(ents[last.e].onDamageCallbacks))
  /\ InSeq("observer", CallbackFns(ents[last.e].onDestroyCallbacks))

\* C6: destroy on an inactive object changes nothing and runs no callback;
\* a destroy that takes effect runs every destroy callback before onDestroy.
DestroyStep(e) ==
  /\ last'.op = "destroy"
  /\ last'.e = e

DestroyGuarded ==
  [][\A e \in Ids :
       DestroyStep(e) =>
         IF ents[e].active
         THEN /\ ~ents'[e].active
              /\ ents'[e].fired = CallbackFns(ents[e].onDestroyCallbacks) \o <<"onDestroy">>
         ELSE /\ ents' = ents
              /\ pools' = pools
              /\ obs' = {}
              /\ allEntities' = allEntities
              /\ entitiesByType' = entitiesByType]_vars

DestroyGuardedWitness ==
  /\ last.op = "destroy"
  /\ ~ents[last.e].active
  /\ Len(ents[last.e].fired) >= 3

\* C7: nobody sees an object with health <= 0 that is still active, neither
\* between operations nor inside a damage or destroy callback.
NeverDeadAndActive ==
  /\ \A e \in Ids : ents[e].made /\ ents[e].health <= 0 => ~ents[e].active
  /\ \A o \in obs : o.health <= 0 => ~o.active

\* --------------------------------------------------------- manager claims
\* C8: an object that was created by createEntity and has been destroyed is
\* neither in allEntities nor in the index of any kind (every tracked object
\* is a live one), for the tower kind and for the enemy kind alike.
DestroyedUntracked ==
  \A e \in Ids :
    (ents[e].made /\ ~ents[e].active) =>
        /\ e \notin allEntities
        /\ \A t \in EntityTypes : e \notin entitiesByType[t]

DestroyedUntrackedWitness ==
  /\ last.op = "destroy"
  /\ ents[last.e].cls = "Tower"
  /\ ~ents[last.e].active
  /\ InSeq("removeEntity", ents[last.e].fired)
  /\ last.e \notin allEntities

\* ------------------------------------------------------------ wave claims
\* C9: wave-completed(w) is emitted only with the spawn queue empty and the
\* live-enemy set empty; the manager is then waiting with timeUntilNextWave =
\* nextWaveDelay, and no enemy spawned in wave w is still alive.
WaveCompletesWhenEmpty ==
  last.event.kind = "completed" =>
      /\ last.event.wave = wm.currentWave
      /\ wm.spawnQueue = <<>>
      /\ wm.activeEnemies = {}
      /\ ~wm.waveInProgress
      /\ wm.timeUntilNextWave = NextWaveDelay
      /\ \A e \in Ids : ~(ents[e].inWave /\ ents[e].active)

WaveCompletesWhenEmptyWitness ==
  /\ last.event.kind = "completed"
  /\ wm.enemiesKilledInWave > 0
  /\ wm.enemiesRemainingToSpawn = 0

\* two consecutive wave events a, b alternate: started(1) first, completed(w)
\* after started(w), started(w + 1) after completed(w)
Alternate(a, b) ==
  CASE b.kind = "started" ->
         \/ a.kind = "none" /\ b.wave = 1
         \/ a.kind = "completed" /\ b.wave = a.wave + 1
    [] b.kind = "completed" -> a.kind = "started" /\ a.wave = b.wave
    [] OTHER -> a.kind = "none"

\* C10 as stated: in every run of the program any two consecutive wave
\* events alternate started(w), completed(w), started(w + 1).
WaveEventsAlternate == Alternate(wm.prevEvent, wm.lastEvent)

\* C10 amended: the events alternate between one startWaves() and the next;
\* startWaves() itself emits started(1) whatever the event before it was.
WaveEventsAlternateSinceStart ==
  IF wm.lastEvent.by = "startWaves"
  THEN wm.lastEvent = WaveEvent("started", 1, "startWaves")
  ELSE Alternate(wm.prevEvent, wm.lastEvent)

WaveEventsAlternateWitness ==
  /\ wm.lastEvent = WaveEvent("started", 2, "update")
  /\ wm.prevEvent = WaveEvent("completed", 1, "update")

\* C11: with update called again and again, the director not paused and every
\* spawned enemy destroyed in the end, every started wave n leads to
\* wave-completed(n), and wave-completed(n) leads to the start of wave n + 1
\* (for the waves up to MaxWave).
WaveCycleLive ==
  /\ \A n \in 1..MaxWave :
       (wm.waveInProgress /\ wm.currentWave = n)
         ~> (~wm.waveInProgress /\ wm.lastEvent = WaveEvent("completed", n, "update"))
  /\ \A n \in 1..(MaxWave - 1) :
       (wm.lastEvent = WaveEvent("completed", n, "update"))
         ~> (wm.waveInProgress /\ wm.currentWave = n + 1)

WaveCycleLiveWitness ==
  /\ wm.lastEvent = WaveEvent("completed", MaxWave, "update")
  /\ wm.prevEvent = WaveEvent("started", MaxWave, "update")
  /\ wm.enemiesKilledInWave > 0

\* C12: an update made while wave w is spawning takes the next queue entry
\* exactly when the time waited since the previous spawn has reached the
\* spawnDelay of the WaveConfig generated for wave w.
SpawnStep ==
  /\ last'.op = "update"
  /\ ~wm.isPaused /\ wm.waveInProgress /\ wm.spawningEnemies /\ wm.spawnQueue # <<>>

SpawnIntervalIsConfigDelay ==
  [][SpawnStep =>
       ((Len(wm'.spawnQueue) < Len(wm.spawnQueue))
          <=> (wm.timeSinceLastSpawn + last'.dt >= ConfigSpawnDelay(wm.currentWave)))]_vars

\* C13: a wave that has been started has enemyCount = baseCount + (w - 1) *
\* countIncrease enemies to spawn; wave 1 has 4 and wave 5 has 12.
EnemyCountFormula ==
  (wm.waveInProgress /\ last.event.kind = "started") =>
      /\ wm.enemiesInCurrentWave = BaseEnemyCount + (wm.currentWave - 1) * EnemyCountIncrease
      /\ wm.enemiesRemainingToSpawn = wm.enemiesInCurrentWave
      /\ (wm.currentWave = 1 => wm.enemiesInCurrentWave = 4)
      /\ (wm.currentWave = 5 => wm.enemiesInCurrentWave = 12)

EnemyCountFormulaWitness ==
  /\ last.event = WaveEvent("started", 5, "update")
  /\ wm.enemiesInCurrentWave = 12

\* the boss entries of a spawn queue
Bosses(q) == {i \in 1..Len(q) : q[i].type = "boss"}

\* C14: the configuration of wave w holds one boss when w is a multiple of 10,
\* one more when w >= 20 is a multiple of 5, and no other boss; the boss added
\* from wave 20 on is weaker than the boss of the multiples of 10.
BossWaves ==
  (wm.waveInProgress /\ last.event.kind = "started") =>
      LET w == wm.currentWave
          q == wm.spawnQueue
          tenth == w % 10 = 0
          fifth == w >= 20 /\ w % 5 = 0
      IN /\ Cardinality(Bosses(q)) = (IF tenth THEN 1 ELSE 0) + (IF fifth THEN 1 ELSE 0)
         /\ tenth /\ ~fifth => \A i \in Bosses(q) : q[i].health = ScaledHealth(10, w)
         /\ fifth /\ ~tenth => \A i \in Bosses(q) : q[i].health < ScaledHealth(10, w)
         /\ fifth /\ tenth => \E i, j \in Bosses(q) : q[i].health < q[j].health

BossWavesWitness ==
  /\ last.event = WaveEvent("started", 20, "update")
  /\ Cardinality(Bosses(wm.spawnQueue)) = 2

\* the values a pause has to keep
Frozen ==
  /\ wm'.currentWave = wm.currentWave
  /\ wm'.spawnQueue = wm.spawnQueue
  /\ wm'.timeSinceLastSpawn = wm.timeSinceLastSpawn
  /\ wm'.timeUntilNextWave = wm.timeUntilNextWave
  /\ wm'.enemiesKilledInWave = wm.enemiesKilledInWave
  /\ wm'.activeEnemies = wm.activeEnemies

\* C15: an update of a paused director changes neither the wave number, the
\* spawn queue, the spawn timer, the time until the next wave, the kill counter
\* nor the live-enemy set, and resume() hands exactly those values on.
PausedUpdateFreezes ==
  [][/\ (wm.isPaused /\ last'.op = "update") => (Frozen /\ wm'.isPaused)
     /\ (last'.op = "resume") => (Frozen /\ ~wm'.isPaused)]_vars

PausedUpdateFreezesWitness ==
  /\ last.op = "update"
  /\ wm.isPaused
  /\ wm.waveInProgress
  /\ wm.timeSinceLastSpawn > 0
  /\ wm.spawnQueue # <<>>
  /\ wm.activeEnemies # {}

\* C16: after stopWaves() the spawn queue and the live-enemy set are empty,
\* every enemy the director spawned is inactive, and the enemy pool still has
\* disjoint free list and active set and at most maxSize active objects.
StopWavesDeactivates ==
  last.op = "stopWaves" =>
      /\ wm.spawnQueue = <<>>
      /\ wm.activeEnemies = {}
      /\ \A e \in Ids : ents[e].cls = "Enemy" => ~ents[e].active
      /\ SeqToSet(pools["enemy"].pool) \cap SeqToSet(pools["enemy"].active) = {}
      /\ Len(pools["enemy"].active) <= pools["enemy"].config.maxSize

\* C17: between operations, the director's live-enemy set (its "enemies
\* remaining") is the set of active enemies of the entity manager's index.
LiveSetMatchesRegistry ==
  wm.activeEnemies = {e \in entitiesByType["enemy"] : ents[e].active}

\* ------------------------------------------------------- fire-rate claims
\* the weapon has fired before and has not been activated again since
ArmedSinceShot(weaponId) ==
  /\ InSeq(weaponId, tws.activeWeapons)
  /\ tws.shots[weaponId] >= 0
  /\ tws.lastFireTimes[weaponId] = tws.shots[weaponId]

\* 1000 / fireRate ms: 2,000 ms at fireRate 0.5, 1,000 ms at fireRate 1.0
GateInterval(weaponId) == IF weaponId = "basic_turret" THEN 2000 ELSE 1000

\* C18: a weapon that stays active fires no earlier than 1000/fireRate ms after
\* its previous fire event, and with a valid target in range it fires in the
\* first update made once that time has passed
FireRateGate ==
  [][last'.op = "update" =>
       \A weaponId \in WeaponIds :
         ArmedSinceShot(weaponId) =>
           /\ weaponId \in tws'.fired =>
                tws'.now - tws.shots[weaponId] >= GateInterval(weaponId)
           /\ (\E i \in 1..Len(tws'.handed) :
                 /\ tws'.handed[i].active
                 /\ tws'.handed[i].health > 0
                 /\ tws'.handed[i].x * tws'.handed[i].x + tws'.handed[i].y * tws'.handed[i].y
                      <= TurretRange * TurretRange)
              => (weaponId \in tws'.fired
                    <=> tws'.now - tws.shots[weaponId] >= GateInterval(weaponId))]_vars

\* C18 witness: the basic turret (fireRate 0.5) has just fired 2,000 ms after
\* its previous fire event, over four updates 500 ms apart
FireRateGateWitness ==
  /\ last.op = "update"
  /\ "basic_turret" \in tws.fired
  /\ tws.prevShots["basic_turret"] = 2000
  /\ tws.shots["basic_turret"] = 4000
  /\ tws.lastFireTimes["basic_turret"] = 4000

\* ------------------------------------------------ target selection claims
\* the enemies of the list that are active, alive and within the turret's range
InRange == {i \in 1..Len(tws.enemies) :
              /\ tws.enemies[i].active
              /\ tws.enemies[i].health > 0
              /\ tws.enemies[i].x * tws.enemies[i].x + tws.enemies[i].y * tws.enemies[i].y
                   <= TurretRange * TurretRange}

SquaredDistance(i) == tws.enemies[i].x * tws.enemies[i].x + tws.enemies[i].y * tws.enemies[i].y

PolicyKey(mode, enemy) ==
  CASE mode = "nearest" -> 0 - (enemy.x * enemy.x + enemy.y * enemy.y)
    [] mode = "furthest" -> enemy.x * enemy.x + enemy.y * enemy.y
    [] mode = "weakest" -> 0 - enemy.health
    [] mode = "strongest" -> enemy.health
    [] mode = "fastest" -> enemy.speed
    [] mode = "slowest" -> 0 - enemy.speed

\* C20: in each of the six targeting modes no in-range enemy that ties with the
\* answer on the mode's key comes before the answer in the list
TiesResolveToFirst ==
  last.op = "findTarget" /\ tws.target # 0 =>
    \A j \in InRange :
      PolicyKey(tws.targetingMode, tws.enemies[j])
        = PolicyKey(tws.targetingMode, tws.enemies[tws.target]) => tws.target <= j

\* C20 witness: the second and third enemies tie as the strongest in range,
\* behind a weaker first one, and the second has been chosen
TiesResolveToFirstWitness ==
  /\ last.op = "findTarget"
  /\ tws.targetingMode = "strongest"
  /\ InRange = {1, 2, 3}
  /\ tws.enemies[1].health < tws.enemies[2].health
  /\ tws.enemies[2].health = tws.enemies[3].health
  /\ tws.enemies[2].x # tws.enemies[3].x
  /\ tws.target = 2

\* ------------------------------------------------------ chain lightning claims
\* the damage applications of the chain fired in the latest update
ChainLog == SelectSeq(tws.log, LAMBDA h : h.step = "chain")

ChainHit == {ChainLog[n].enemy : n \in 1..Len(ChainLog)}

\* an enemy within the chain radius (80 px) of another
WithinChainRadius(i, j) ==
  (tws.enemies[i].x - tws.enemies[j].x) * (tws.enemies[i].x - tws.enemies[j].x)
    + (tws.enemies[i].y - tws.enemies[j].y) * (tws.enemies[i].y - tws.enemies[j].y) <= 16 * 16

\* C21: one chain applies damage at most 5 times and to no enemy twice; each
\* link was active and within the chain radius of the link before it, and a
\* chain shorter than 5 ended where no active enemy it had not hit was within
\* the chain radius of its last link
ChainTermination ==
  last.op = "update" =>
    /\ Len(ChainLog) <= 5
    /\ \A a, b \in 1..Len(ChainLog) : a # b => ChainLog[a].enemy # ChainLog[b].enemy
    /\ \A n \in 2..Len(ChainLog) :
         ChainLog[n].wasActive /\ WithinChainRadius(ChainLog[n].enemy, ChainLog[n - 1].enemy)
    /\ (ChainLog # <<>> /\ Len(ChainLog) < 5) =>
         \A j \in 1..Len(tws.enemies) :
           (j \notin ChainHit /\ tws.enemies[j].active)
             => ~WithinChainRadius(j, ChainLog[Len(ChainLog)].enemy)

\* C21 witness: a chain has applied damage 5 times although a sixth live enemy
\* stands within the chain radius of its last link
ChainTerminationWitness ==
  /\ last.op = "update"
  /\ Len(ChainLog) = 5
  /\ \E j \in 1..Len(tws.enemies) :
       /\ j \notin ChainHit
       /\ tws.enemies[j].active
       /\ WithinChainRadius(j, ChainLog[5].enemy)

\* ------------------------------------------------------------ projectile claims
\* the ids of the projectiles in flight, before and after a step
FlyingBefore == {tws.projectiles[k].id : k \in 1..Len(tws.projectiles)}

FlyingAfter == {tws'.projectiles[k].id : k \in 1..Len(tws'.projectiles)}

\* the ids of the projectiles that damaged an enemy in the step's update
HittingNow == {tws'.log[n].projectile : n \in 1..Len(tws'.log)}

\* C22: in the first update at which a projectile's age has reached its
\* lifetime (range / projectileSpeed * 1000 ms) the projectile is removed and
\* registers no hit; until then a projectile that hits nothing stays in flight
ProjectileExpiry ==
  [][last'.op = "update" =>
       \A k \in 1..Len(tws.projectiles) :
         LET p == tws.projectiles[k]
         IN /\ tws'.now - p.createdTime >= p.lifetime
                 => (p.id \notin FlyingAfter /\ p.id \notin HittingNow)
            /\ (tws'.now - p.createdTime < p.lifetime /\ p.id \notin HittingNow)
                 => p.id \in FlyingAfter]_vars

\* how many damage applications of the latest update the projectile made to
\* the enemy in the given step
Applications(projectile, enemy, steps) ==
  Cardinality({n \in 1..Len(tws.log) :
                 /\ tws.log[n].projectile = projectile
                 /\ tws.log[n].enemy = enemy
                 /\ tws.log[n].step \in steps})

\* the enemy was active when the update began and stands within the active
\* weapon's areaOfEffect of the n-th damage application's impact point
InSplashOf(n, j) ==
  /\ tws.handed[j].active
  /\ (tws.handed[j].x - tws.log[n].x) * (tws.handed[j].x - tws.log[n].x)
       + (tws.handed[j].y - tws.log[n].y) * (tws.handed[j].y - tws.log[n].y)
       <= WeaponCatalog(Head(tws.activeWeapons)).areaOfEffect
            * WeaponCatalog(Head(tws.activeWeapons)).areaOfEffect

\* C23: when a projectile of an area-effect weapon hits enemy A, A gets its
\* damage once, as the primary hit, and never from its splash; every other
\* enemy active within areaOfEffect of the impact point gets it exactly once
SplashExclusion ==
  (last.op = "update" /\ WeaponCatalog(Head(tws.activeWeapons)).areaOfEffect > 0) =>
    \A n \in 1..Len(tws.log) :
      tws.log[n].step = "primary" =>
        /\ Applications(tws.log[n].projectile, tws.log[n].enemy, {"primary", "splash"}) = 1
        /\ \A j \in 1..Len(tws.handed) :
             (j # tws.log[n].enemy /\ InSplashOf(n, j))
               => Applications(tws.log[n].projectile, j, {"primary", "splash"}) = 1

\* C24: a projectile in flight has hit no enemy twice, and one that is not
\* piercing has hit none: its first hit removed it
PrimaryDamageOnce ==
  \A k \in 1..Len(tws.projectiles) :
    /\ \A a, b \in 1..Len(tws.projectiles[k].hits) :
         a # b => tws.projectiles[k].hits[a] # tws.projectiles[k].hits[b]
    /\ ~tws.projectiles[k].piercing => tws.projectiles[k].hits = <<>>


\* C25: an update of a continuous weapon applies exactly damage * deltaTime,
\* once, to the target (beam) or to each active enemy in range (field), and
\* never a discrete hit of the full damage through the gated fire path.
ContinuousDamage ==
  [][last'.op = "update" =>
       LET weapon == WeaponCatalog(Head(tws.activeWeapons))
           deltaTime == tws'.now - tws.now
       IN /\ \A n \in 1..Len(tws'.log) :
               /\ tws'.log[n].step \in {"beam", "field"}
               /\ tws'.log[n].damage = (weapon.damage * deltaTime) \div 1000
          /\ \A n, m \in 1..Len(tws'.log) :
               n # m => tws'.log[n].enemy # tws'.log[m].enemy]_vars


\* C26: takeDamage and destroy on an object that is not active change nothing
\* and call no callback; fireWeapon at a target that is not active changes
\* nothing of the weapon system: no damage, no kill, no shot counted.
InactiveNoOp ==
  [][/\ (last'.op \in {"takeDamage", "destroy"} /\ ~ents[last'.e].active)
          => /\ ents' = ents /\ pools' = pools /\ activationOrder' = activationOrder
             /\ allEntities' = allEntities /\ wm' = wm /\ game' = game
             /\ obs' = {}
     /\ (last'.op = "fireWeapon" /\ ~tws.enemies[last'.e].active)
          => tws' = tws]_vars

\* C26 witness: takeDamage was called on an inactive object that has damage
\* and destroy observers registered, none of which saw the call; and the
\* weapon system, having fired before, was told to fire at the inactive target
InactiveNoOpWitness ==
  \/ /\ last.op = "takeDamage"
     /\ ~ents[last.e].active /\ ents[last.e].health > 0
     /\ \E i \in 1..Len(ents[last.e].onDamageCallbacks) :
          ents[last.e].onDamageCallbacks[i].fn = "observer"
     /\ \E i \in 1..Len(ents[last.e].onDestroyCallbacks) :
          ents[last.e].onDestroyCallbacks[i].fn = "observer"
     /\ obs = {}
     /\ tws.projectilesFired > 0
  \/ /\ last.op = "fireWeapon"
     /\ ~tws.enemies[last.e].active /\ tws.enemies[last.e].health > 0
     /\ tws.projectilesFired > 0


\* the steps of the latest frame
FrameTrace == IF last.op = "frame" THEN last.trace ELSE <<>>

\* C27: a frame runs the wave manager, then the weapons, then the projectiles,
\* then the registry's update pass; an enemy spawned in the frame is in the
\* list the weapon system targets in that frame.
FrameOrder ==
  /\ \A i, j \in 1..Len(FrameTrace) :
       /\ (FrameTrace[i].ev = "spawn" /\ FrameTrace[j].ev \in {"handed", "damageEnemy"}) => i < j
       /\ (FrameTrace[i].ev \in {"handed", "damageEnemy"}
             /\ FrameTrace[j].ev \in {"present", "update"}) => i < j
  /\ \A i \in 1..Len(FrameTrace) :
       FrameTrace[i].ev = "spawn"
         => \E j \in 1..Len(FrameTrace) :
              FrameTrace[j].ev = "handed" /\ FrameTrace[j].e = FrameTrace[i].e
  /\ last.op = "frame"
       => \A k \in 1..Len(tws.projectiles) :
            tws.projectiles[k].createdTime = tws.now => tws.projectiles[k].x # 0

\* C27 witness: an enemy spawned in the frame was shot by a projectile fired
\* in the same frame, and the registry then updated the tower
FrameOrderWitness ==
  /\ tws.fired # {}
  /\ \E i, j, n \in 1..Len(FrameTrace) :
       /\ FrameTrace[i].ev = "spawn"
       /\ FrameTrace[j].ev = "damageEnemy" /\ FrameTrace[j].e = FrameTrace[i].e
       /\ FrameTrace[j].fn = "primary"
       /\ FrameTrace[n].ev = "update"

\* C28: the destroy callbacks of the objects that die in a frame are called
\* after the frame's last step: no step of the weapons, the projectiles or
\* the registry follows a callback.
CallbacksAfterFrame ==
  \A i, j \in 1..Len(FrameTrace) :
    (i < j /\ FrameTrace[i].ev = "callback") => FrameTrace[j].ev = "callback"


\* how often the latest operation took step ev on object e
Steps(ev, e) == Cardinality({i \in 1..Len(last.trace) : last.trace[i].ev = ev /\ last.trace[i].e = e})

\* the primary hits of the latest weapon system update
PrimaryHits == {n \in 1..Len(tws.log) : tws.log[n].step = "primary"}

\* the projectile of the n-th damageEnemy call is within collision distance
\* of the j-th enemy
Touches(n, j) ==
  ProjectileDistance(tws.log[n], tws.handed[j]) <= tws.handed[j].radius + 1

\* C29: in the registry's update pass every object that is active when the
\* pass starts is updated exactly once and no other object is updated,
\* whatever is destroyed on the way; in the projectiles' collision pass no
\* inactive enemy is damaged, no enemy takes a projectile's primary hit twice,
\* and a piercing projectile that hits an enemy passes over no enemy that is
\* within collision distance and still active.
PassesIterateSafely ==
  /\ last.op = "registry"
       => \A e \in Ids : Steps("update", e) = Steps("present", e) /\ Steps("update", e) <= 1
  /\ last.op = "weapons"
       => /\ \A n \in 1..Len(tws.log) : tws.log[n].wasActive
          /\ \A n, m \in PrimaryHits :
               (n # m /\ tws.log[n].projectile = tws.log[m].projectile)
                 => tws.log[n].enemy # tws.log[m].enemy
          /\ \A n \in PrimaryHits : \A j \in 1..Len(tws.handed) :
               (/\ \E k \in 1..Len(tws.projectiles) :
                     tws.projectiles[k].id = tws.log[n].projectile
                /\ Touches(n, j)
                /\ tws.enemies[j].active)
                 => \E m \in PrimaryHits :
                      tws.log[m].projectile = tws.log[n].projectile /\ tws.log[m].enemy = j

\* C29 witness: a registry pass in which an enemy destroyed itself and the
\* enemy after it was updated; or a collision pass in which a piercing
\* projectile killed two enemies within its reach, one by its primary hit and
\* one by the splash, and stayed in flight
PassesIterateSafelyWitness ==
  \/ /\ last.op = "registry"
     /\ \E i, j \in 1..Len(last.trace) :
          /\ i < j
          /\ last.trace[i].ev = "callback" /\ last.trace[i].fn = "release"
          /\ last.trace[j].ev = "update" /\ ents[last.trace[j].e].cls = "Enemy"
  \/ /\ last.op = "weapons"
     /\ \E n \in PrimaryHits : \E j \in 1..Len(tws.handed) :
          /\ j # tws.log[n].enemy /\ Touches(n, j)
          /\ ~tws.enemies[j].active /\ ~tws.enemies[tws.log[n].enemy].active
          /\ \E k \in 1..Len(tws.projectiles) : tws.projectiles[k].id = tws.log[n].projectile


\* C30: while acquire evicts the oldest active object, a release (or acquire)
\* that the object's destroy callbacks ask for does not run before the
\* eviction is complete.
EvictionNotReentered ==
  last.op = "acquire" =>
    \A i, j, k \in 1..Len(last.trace) :
      (i < j /\ j < k /\ last.trace[i].ev = "evict" /\ last.trace[k].ev = "evicted")
        => ~(last.trace[j].ev = "callback" /\ last.trace[j].fn \in {"release", "acquire"})


\* C31: release(obj) of an active pooled object takes it out of the active
\* set, marks it inactive, and pushes it onto the free list exactly when the
\* free list is shorter than half of maxSize; otherwise the object is in
\* neither collection.
ReleaseSoftCap ==
  [][(/\ last'.op = "release"
      /\ ents[last'.e].pooled
      /\ InSeq(last'.e, pools["enemy"].active)
      /\ ~InSeq(last'.e, pools["enemy"].pool))
       => /\ ~InSeq(last'.e, pools'["enemy"].active)
          /\ ~ents'[last'.e].active
          /\ InSeq(last'.e, pools'["enemy"].pool)
               <=> 2 * Len(pools["enemy"].pool) < pools["enemy"].config.maxSize]_vars


\* C32: the tower a run starts with has health 3 and maxHealth 3.
TowerStartsAtFullHealth ==
  (/\ last.op = "enterPlaying"
   /\ game.phase = "playing" /\ game.tower # 0
   /\ ents[game.tower].active /\ ents[game.tower].age = 0)
    => /\ ents[game.tower].health = TowerHealth
       /\ ents[game.tower].maxHealth = TowerHealth


\* C33: after forceNextWave() was called while the director was waiting
\* between two waves, the next update of the unpaused director starts the
\* following wave.
ForcedWaveStarts ==
  [][(/\ last.op = "forceNextWave" /\ last.dt > 0
      /\ last'.op = "update" /\ ~wm.isPaused)
       => /\ last'.event.kind = "started"
          /\ wm'.currentWave = wm.currentWave + 1]_vars


\* C34: acquire never returns an object that an earlier acquire returned and
\* that has not been destroyed or released since (an object still in the active
\* set that this acquire did not evict), and the free list never holds the
\* same object twice.
AcquireDistinct ==
  [][/\ (last'.op = "acquire" /\ last'.e # last'.evicted)
          => ~InSeq(last'.e, pools["enemy"].active)
     /\ \A i, j \in 1..Len(pools'["enemy"].pool) :
          pools'["enemy"].pool[i] = pools'["enemy"].pool[j] => i = j]_vars


\* C35: a wave that has been started has as many spawn-queue entries as its
\* enemyCount (the total the wave reports); the count of enemies remaining to
\* spawn is never negative and the kill counter never exceeds the total.
SpawnQueueMatchesCount ==
  /\ (wm.waveInProgress /\ last.event.kind = "started")
        => Len(wm.spawnQueue) = wm.enemiesInCurrentWave
  /\ wm.enemiesRemainingToSpawn >= 0
  /\ wm.enemiesKilledInWave <= wm.enemiesInCurrentWave


\* C36: whatever activateWeapon, deactivateWeapon, reset and update calls are
\* made, a weapon that has fired before fires again no earlier than
\* 1000/fireRate ms after that fire event.
FireRateGateAlways ==
  [][last'.op = "update" =>
       \A weaponId \in WeaponIds :
         (tws.shots[weaponId] >= 0 /\ weaponId \in tws'.fired)
           => tws'.now - tws.shots[weaponId] >= GateInterval(weaponId)]_vars


\* C37: the hits recorded never exceed the shots recorded as fired, so the
\* accuracy getStats reports, shotsHit / projectilesFired * 100, is at most 100.
HitsWithinShots ==
  tws.shotsHit <= tws.projectilesFired


\* C38: the score and coin reward of a spawned agent is granted at most once,
\* and a click on the clickable of an agent that is no longer active (killed by
\* a weapon or destroyed otherwise) grants nothing.
RewardOnce ==
  [][/\ \A e \in Ids : game'.rewards[e] <= 1
     /\ \A e \in Ids :
          (last'.op = "click" /\ last'.e = e /\ ~ents[e].active)
             => game'.rewards = game.rewards /\ game'.score = game.score]_vars


\* C39: changeState(PLAYING) from the game-over state starts a fresh run,
\* whether or not the run before was paused and resumed: a tower is created,
\* the score and the game time are zero and wave 1 is started.
RestartIsFresh ==
  [][(game.phase = "gameover" /\ last'.op = "enterPlaying")
       => /\ game'.phase = "playing"
          /\ game'.tower # 0 /\ ents'[game'.tower].active /\ ents'[game'.tower].age = 0
          /\ game'.score = 0 /\ game'.gameTime = 0
          /\ wm'.currentWave = 1 /\ wm'.waveInProgress /\ ~wm'.isPaused
          /\ last'.event = WaveEvent("started", 1, "startWaves")]_vars


\* C40: changeState(PLAYING) ends with the playing state current and is not
\* re-entered while PlayingState.onEnter runs (no triggerGameOver is called
\* from within it), also when the run is started from the main menu while the
\* tower of the run before is still alive in the tower pool of maxSize 1.
ChangeStateCompletes ==
  [][last'.op = "enterPlaying"
       => /\ game'.phase = "playing"
          /\ \A i \in 1..Len(last'.trace) :
               ~(last'.trace[i].ev = "callback" /\ last'.trace[i].fn = "gameOver")]_vars

====
